---- MODULE Spec2Model ----
(***************************************************************************)
(* Account search prototype: validator, sorter, predicate evaluator and    *)
(* query engine of the primary and the secondary search page.              *)
(*                                                                         *)
(* A JavaScript string is a sequence of one-character strings, so that     *)
(* toLowerCase, includes, startsWith, trim, Number and the relational      *)
(* operators on strings are computed character by character.               *)
(***************************************************************************)
EXTENDS Integers, Sequences, FiniteSets, TLC

----------------------------------------------------------------------------
(* Characters *)

DigitChars == <<"0","1","2","3","4","5","6","7","8","9">>

UpperChars == <<"A","B","C","D","E","F","G","H","I","J","K","L","M",
                "N","O","P","Q","R","S","T","U","V","W","X","Y","Z">>

LowerChars == <<"a","b","c","d","e","f","g","h","i","j","k","l","m",
                "n","o","p","q","r","s","t","u","v","w","x","y","z">>

IndexOf(c, table) == CHOOSE i \in 1..Len(table) : table[i] = c

\* /\d/
IsDigit(c) == \E i \in 1..Len(DigitChars) : DigitChars[i] = c

IsUpper(c) == \E i \in 1..Len(UpperChars) : UpperChars[i] = c

IsLower(c) == \E i \in 1..Len(LowerChars) : LowerChars[i] = c

\* /[a-zA-Z]/
IsLetter(c) == IsUpper(c) \/ IsLower(c)

\* /\s/ : the space is the only white-space character of the alphabet
IsSpace(c) == c = " "

\* UTF-16 code unit of a character of the alphabet
charCode(c) ==
    IF IsDigit(c) THEN 47 + IndexOf(c, DigitChars)
    ELSE IF IsUpper(c) THEN 64 + IndexOf(c, UpperChars)
    ELSE IF IsLower(c) THEN 96 + IndexOf(c, LowerChars)
    ELSE CASE c = " " -> 32
           [] c = "(" -> 40
           [] c = ")" -> 41
           [] c = "+" -> 43
           [] c = "-" -> 45
           [] c = "." -> 46
           [] c = "@" -> 64

----------------------------------------------------------------------------
(* String primitives of the platform *)

Min(S) == CHOOSE x \in S : \A y \in S : x <= y

Max(S) == CHOOSE x \in S : \A y \in S : x >= y

\* String.prototype.toLowerCase
toLowerCase(s) ==
    [i \in 1..Len(s) |-> IF IsUpper(s[i]) THEN LowerChars[IndexOf(s[i], UpperChars)] ELSE s[i]]

\* String.prototype.startsWith
startsWith(s, t) == Len(t) <= Len(s) /\ SubSeq(s, 1, Len(t)) = t

\* String.prototype.includes
includes(s, t) == \E k \in 0..(Len(s) - Len(t)) : SubSeq(s, k + 1, k + Len(t)) = t

\* String.prototype.trim
trim(s) ==
    LET keep == {i \in 1..Len(s) : ~IsSpace(s[i])}
    IN  IF keep = {} THEN <<>> ELSE SubSeq(s, Min(keep), Max(keep))

\* value.replace(/[\s\-\(\)]/g, '')
removeFormatting(s) == SelectSeq(s, LAMBDA c : ~(IsSpace(c) \/ c \in {"-", "(", ")"}))

\* value.replace(/\D/g, '')
removeNonDigits(s) == SelectSeq(s, IsDigit)

\* a < b on strings: lexicographic order of the code units
StrLess(a, b) ==
    \E k \in 0..Min({Len(a), Len(b)}) :
        /\ SubSeq(a, 1, k) = SubSeq(b, 1, k)
        /\ \/ k = Len(a) /\ k < Len(b)
           \/ k < Len(a) /\ k < Len(b) /\ charCode(a[k + 1]) < charCode(b[k + 1])

StrLeq(a, b) == a = b \/ StrLess(a, b)

----------------------------------------------------------------------------
(* Numbers.  A number is NaN or a signed decimal kept as its digits, the   *)
(* integer part without leading zeros and the fraction without trailing    *)
(* zeros, so every digit string converts exactly.                          *)

NaN == [nan |-> TRUE, neg |-> FALSE, ip |-> <<>>, fp |-> <<>>]

RECURSIVE stripLeadingZeros(_)
stripLeadingZeros(d) ==
    IF d # <<>> /\ Head(d) = "0" THEN stripLeadingZeros(Tail(d)) ELSE d

RECURSIVE stripTrailingZeros(_)
stripTrailingZeros(d) ==
    IF d # <<>> /\ d[Len(d)] = "0" THEN stripTrailingZeros(SubSeq(d, 1, Len(d) - 1)) ELSE d

MakeNumber(neg, ip, fp) ==
    LET i == stripLeadingZeros(ip)
        f == stripTrailingZeros(fp)
    IN  [nan |-> FALSE, neg |-> neg /\ (i # <<>> \/ f # <<>>), ip |-> i, fp |-> f]

AllDigits(d) == \A i \in 1..Len(d) : IsDigit(d[i])

\* Number(string): StringToNumber on the decimal literals (white space
\* trimmed, optional sign, digits with an optional fraction); the empty
\* string is 0 and every other text is NaN.
NumberOfString(s) ==
    LET t      == trim(s)
        signed == t # <<>> /\ t[1] \in {"+", "-"}
        body   == IF signed THEN Tail(t) ELSE t
        dots   == {i \in 1..Len(body) : body[i] = "."}
    IN  IF t = <<>> THEN MakeNumber(FALSE, <<>>, <<>>)
        ELSE IF dots = {}
             THEN IF body # <<>> /\ AllDigits(body)
                  THEN MakeNumber(signed /\ t[1] = "-", body, <<>>)
                  ELSE NaN
        ELSE IF Cardinality(dots) = 1
             THEN LET p  == Min(dots)
                      ip == SubSeq(body, 1, p - 1)
                      fp == SubSeq(body, p + 1, Len(body))
                  IN  IF Len(body) > 1 /\ AllDigits(ip) /\ AllDigits(fp)
                      THEN MakeNumber(signed /\ t[1] = "-", ip, fp)
                      ELSE NaN
        ELSE NaN

RECURSIVE decimalDigits(_)
decimalDigits(n) ==
    IF n < 10 THEN <<DigitChars[n + 1]>>
    ELSE decimalDigits(n \div 10) \o <<DigitChars[(n % 10) + 1]>>

\* a number-typed field (balance) as a number
NumberOfInt(n) == MakeNumber(n < 0, decimalDigits(IF n < 0 THEN -n ELSE n), <<>>)

\* String(number) of an integer
StringOfInt(n) == IF n < 0 THEN <<"-">> \o decimalDigits(-n) ELSE decimalDigits(n)

\* order of two magnitudes: -1, 0 or 1
MagnitudeCompare(x, y) ==
    IF Len(x.ip) # Len(y.ip) THEN (IF Len(x.ip) < Len(y.ip) THEN -1 ELSE 1)
    ELSE IF x.ip # y.ip THEN (IF StrLess(x.ip, y.ip) THEN -1 ELSE 1)
    ELSE IF x.fp = y.fp THEN 0
    ELSE IF StrLess(x.fp, y.fp) THEN -1 ELSE 1

\* sign of x - y for two numbers that are not NaN
NumberCompare(x, y) ==
    IF x.neg # y.neg THEN (IF x.neg THEN -1 ELSE 1)
    ELSE IF x.neg THEN -MagnitudeCompare(x, y) ELSE MagnitudeCompare(x, y)

\* x > y, x < y, x >= y, x <= y: false as soon as one side is NaN
NumGreater(x, y) == ~x.nan /\ ~y.nan /\ NumberCompare(x, y) > 0

NumLess(x, y) == ~x.nan /\ ~y.nan /\ NumberCompare(x, y) < 0

NumGeq(x, y) == ~x.nan /\ ~y.nan /\ NumberCompare(x, y) >= 0

NumLeq(x, y) == ~x.nan /\ ~y.nan /\ NumberCompare(x, y) <= 0

\* the comparator value x - y as Array.prototype.sort reads it: its sign,
\* and +0 when the difference is NaN
DifferenceSign(x, y) == IF x.nan \/ y.nan THEN 0 ELSE NumberCompare(x, y)

----------------------------------------------------------------------------
(* Records *)

\* interface Account.  balance is a number, every other field a string; id
\* and status are never read character by character and stay atoms.
Account(id, accountNumber, companyName, contactName, phoneNumber, email, status, balance, createdDate, lastActivity, dateAdded) ==
    [id |-> id, accountNumber |-> accountNumber, companyName |-> companyName,
     contactName |-> contactName, phoneNumber |-> phoneNumber, email |-> email,
     status |-> status, balance |-> balance, createdDate |-> createdDate,
     lastActivity |-> lastActivity, dateAdded |-> dateAdded]

\* keyof Account
AccountFields ==
    {"id", "accountNumber", "companyName", "contactName", "phoneNumber", "email",
     "status", "balance", "createdDate", "lastActivity", "dateAdded"}

ACCOUNT_STATUSES == {"Open", "Closed", "Collections", "Suspended"}

SEARCHABLE_FIELDS == <<"accountNumber", "companyName", "contactName", "phoneNumber", "email">>

DEFAULT_SORT_FIELD == "accountNumber"

\* A sample of the collection the generator builds: 8-digit account
\* numbers, companies and names of its lists, (XXX) XXX-XXXX phones,
\* first.last@example.com, balances in -20000..79999, ISO dates.
mockAccounts ==
 <<
    Account("ACC00001", <<"1","2","3","4","5","6","7","8">>,
            <<"A","c","m","e"," ","C","o","r","p">>,
            <<"J","o","h","n"," ","S","m","i","t","h">>,
            <<"(","5","5","5",")"," ","1","2","3","-","4","5","6","7">>,
            <<"j","o","h","n",".","s","m","i","t","h","@","e","x","a","m","p","l","e",".","c","o","m">>,
            "Open", 5000,
            <<"2","0","2","0","-","0","3","-","0","1">>,
            <<"2","0","2","4","-","0","5","-","0","1">>,
            <<"2","0","2","4","-","0","1","-","1","5">>),
    Account("ACC00002", <<"2","0","0","0","0","0","0","1">>,
            <<"T","e","c","h","S","t","a","r","t"," ","I","n","c">>,
            <<"J","a","n","e"," ","B","r","o","w","n">>,
            <<"(","2","1","2",")"," ","5","5","5","-","0","1","9","9">>,
            <<"j","a","n","e",".","b","r","o","w","n","@","e","x","a","m","p","l","e",".","c","o","m">>,
            "Closed", -200,
            <<"2","0","2","1","-","0","7","-","1","9">>,
            <<"2","0","2","3","-","0","2","-","1","1">>,
            <<"2","0","1","9","-","0","6","-","3","0">>),
    Account("ACC00003", <<"1","2","3","9","9","9","9","9">>,
            <<"N","e","x","u","s"," ","G","r","o","u","p">>,
            <<"J","o","h","n"," ","D","a","v","i","s">>,
            <<"(","5","5","5",")"," ","9","8","7","-","1","0","0","0">>,
            <<"j","o","h","n",".","d","a","v","i","s","@","e","x","a","m","p","l","e",".","c","o","m">>,
            "Collections", 1000,
            <<"2","0","2","2","-","0","1","-","0","5">>,
            <<"2","0","2","5","-","0","8","-","2","3">>,
            <<"2","0","2","1","-","1","2","-","0","1">>),
    Account("ACC00004", <<"9","8","7","6","5","4","3","2">>,
            <<"A","c","m","e"," ","C","o","r","p">>,
            <<"S","a","r","a","h"," ","S","m","i","t","h">>,
            <<"(","4","1","5",")"," ","1","2","3","-","9","9","9","9">>,
            <<"s","a","r","a","h",".","s","m","i","t","h","@","e","x","a","m","p","l","e",".","c","o","m">>,
            "Open", 1000,
            <<"2","0","2","3","-","1","1","-","3","0">>,
            <<"2","0","2","6","-","0","1","-","0","2">>,
            <<"2","0","2","4","-","0","1","-","1","5">>)
 >>

\* String(account[field])
StringOfField(account, field) ==
    IF field = "balance" THEN StringOfInt(account[field]) ELSE account[field]

\* Number(account[field])
NumberOfField(account, field) ==
    IF field = "balance" THEN NumberOfInt(account[field]) ELSE NumberOfString(account[field])

----------------------------------------------------------------------------
(* Sorter *)

\* Collation of String.prototype.localeCompare on the alphabet: white space
\* and punctuation sort before digits, digits before letters, and a letter
\* sorts by its place in the alphabet whatever its case.
collationRank(c) ==
    IF IsDigit(c) THEN 10 + IndexOf(c, DigitChars)
    ELSE IF IsUpper(c) THEN 20 + IndexOf(c, UpperChars)
    ELSE IF IsLower(c) THEN 20 + IndexOf(c, LowerChars)
    ELSE CASE c = " " -> 1
           [] c = "-" -> 2
           [] c = "." -> 3
           [] c = "(" -> 4
           [] c = ")" -> 5
           [] c = "@" -> 6
           [] c = "+" -> 7

\* lexicographic order of two sequences of numbers: -1, 0 or 1
SeqCompare(x, y) ==
    LET n    == Min({Len(x), Len(y)})
        diff == {i \in 1..n : x[i] # y[i]}
    IN  IF diff = {}
        THEN (IF Len(x) < Len(y) THEN -1 ELSE IF Len(x) > Len(y) THEN 1 ELSE 0)
        ELSE (IF x[Min(diff)] < y[Min(diff)] THEN -1 ELSE 1)

\* a.localeCompare(b): the letters decide first, and between strings that
\* differ in case alone the lower-case letter comes first
localeCompare(a, b) ==
    LET primary == SeqCompare([i \in 1..Len(a) |-> collationRank(a[i])],
                              [i \in 1..Len(b) |-> collationRank(b[i])])
    IN  IF primary # 0 THEN primary
        ELSE SeqCompare([i \in 1..Len(a) |-> IF IsUpper(a[i]) THEN 1 ELSE 0],
                        [i \in 1..Len(b) |-> IF IsUpper(b[i]) THEN 1 ELSE 0])

\* Variant: account numbers compared as text, not as numbers.
compareAccountNumber_asText(a, b) ==
    localeCompare(StringOfField(a, "accountNumber"), StringOfField(b, "accountNumber"))

\* case 'accountNumber': Number(aValue) - Number(bValue)
compareAccountNumber(a, b) ==
    DifferenceSign(NumberOfField(a, "accountNumber"), NumberOfField(b, "accountNumber"))

\* case 'phoneNumber': the digits alone, as numbers
comparePhoneNumber(a, b) ==
    LET aDigits == removeNonDigits(StringOfField(a, "phoneNumber"))
        bDigits == removeNonDigits(StringOfField(b, "phoneNumber"))
    IN  DifferenceSign(NumberOfString(aDigits), NumberOfString(bDigits))

\* Variant: the lowest balance first.
compareBalance_ascending(a, b) ==
    DifferenceSign(NumberOfField(a, "balance"), NumberOfField(b, "balance"))

\* case 'balance': Number(bValue) - Number(aValue)
compareBalance(a, b) ==
    DifferenceSign(NumberOfField(b, "balance"), NumberOfField(a, "balance"))

\* Variant: the oldest date first.
compareDateAdded_oldestFirst(a, b) ==
    LET aDate == StringOfField(a, "dateAdded")
        bDate == StringOfField(b, "dateAdded")
    IN  IF StrLess(aDate, bDate) THEN -1
        ELSE IF StrLess(bDate, aDate) THEN 1
        ELSE 0

\* case 'dateAdded'
compareDateAdded(a, b) ==
    LET aDate == StringOfField(a, "dateAdded")
        bDate == StringOfField(b, "dateAdded")
    IN  IF StrLess(aDate, bDate) THEN 1
        ELSE IF StrLess(bDate, aDate) THEN -1
        ELSE 0

\* case 'companyName', 'contactName', 'email'
compareText(a, b, field) ==
    localeCompare(StringOfField(a, field), StringOfField(b, field))

\* the comparator handed to sort: the switch on the field
compareFn(a, b, field) ==
    CASE field = "accountNumber" -> compareAccountNumber(a, b)
      [] field = "phoneNumber" -> comparePhoneNumber(a, b)
      [] field = "balance" -> compareBalance(a, b)
      [] field = "dateAdded" -> compareDateAdded(a, b)
      [] field \in {"companyName", "contactName", "email"} -> compareText(a, b, field)
      [] OTHER -> 0

\* Variant: an element also moves before the elements it compares equal to.
RECURSIVE insertSorted_unstable(_, _, _)
insertSorted_unstable(sorted, x, field) ==
    IF sorted = <<>> THEN <<x>>
    ELSE IF compareFn(sorted[Len(sorted)], x, field) >= 0
         THEN insertSorted_unstable(SubSeq(sorted, 1, Len(sorted) - 1), x, field)
                  \o <<sorted[Len(sorted)]>>
         ELSE sorted \o <<x>>

\* Array.prototype.sort is stable: an element moves before exactly the
\* elements the comparator puts it before.
RECURSIVE insertSorted(_, _, _)
insertSorted(sorted, x, field) ==
    IF sorted = <<>> THEN <<x>>
    ELSE IF compareFn(sorted[Len(sorted)], x, field) > 0
         THEN insertSorted(SubSeq(sorted, 1, Len(sorted) - 1), x, field) \o <<sorted[Len(sorted)]>>
         ELSE sorted \o <<x>>

RECURSIVE ArraySort(_, _)
ArraySort(array, field) ==
    IF array = <<>> THEN <<>>
    ELSE insertSorted(ArraySort(SubSeq(array, 1, Len(array) - 1), field), array[Len(array)], field)

\* Variant: the caller's array is sorted in place and returned.
sortAccountsByField_inPlace(accounts, field) ==
    [accounts |-> ArraySort(accounts, field), result |-> ArraySort(accounts, field)]

\* sortAccountsByField(accounts, field): the copy is sorted and returned.
\* accounts is the caller's array as the call leaves it, result the array
\* the call returns.
sortAccountsByField(accounts, field) ==
    LET copy == accounts
    IN  [accounts |-> accounts, result |-> ArraySort(copy, field)]

----------------------------------------------------------------------------
(* Validator *)

\* Variant: the phone number is not looked at.
validateSearchInput_noPhone(field, value) ==
    IF value = <<>> THEN [valid |-> TRUE, error |-> "undefined"]
    ELSE IF field = "accountNumber" /\ \E i \in 1..Len(value) : IsLetter(value[i])
         THEN [valid |-> FALSE, error |-> "Account number cannot contain letters"]
    ELSE [valid |-> TRUE, error |-> "undefined"]

\* validateSearchInput(field, value): {valid, error}
validateSearchInput(field, value) ==
    IF value = <<>> THEN [valid |-> TRUE, error |-> "undefined"]
    ELSE IF field = "accountNumber" /\ \E i \in 1..Len(value) : IsLetter(value[i])
         THEN [valid |-> FALSE, error |-> "Account number cannot contain letters"]
    ELSE IF field = "phoneNumber"
            /\ \E i \in 1..Len(removeFormatting(value)) : IsLetter(removeFormatting(value)[i])
         THEN [valid |-> FALSE, error |-> "Phone number cannot contain letters"]
    ELSE [valid |-> TRUE, error |-> "undefined"]

----------------------------------------------------------------------------
(* Fuzzy matcher.  The score of a record is a multiple of 1/search.length, *)
(* from the term (matchingChars / search.length) * 50; it is kept times    *)
(* search.length, as an integer.  The scores of one call share the length, *)
(* so their order and their sign are those of the scores themselves.       *)

\* for (let i = 0; i < fieldValue.length && searchIndex < search.length; i++):
\* the loop from position i on
RECURSIVE inOrderScan(_, _, _, _, _, _)
inOrderScan(fieldValue, search, i, searchIndex, consecutiveMatches, maxConsecutive) ==
    IF ~(i <= Len(fieldValue) /\ searchIndex < Len(search))
    THEN [searchIndex |-> searchIndex, maxConsecutive |-> maxConsecutive]
    ELSE IF fieldValue[i] = search[searchIndex + 1]
         THEN inOrderScan(fieldValue, search, i + 1, searchIndex + 1, consecutiveMatches + 1,
                          Max({maxConsecutive, consecutiveMatches + 1}))
         ELSE inOrderScan(fieldValue, search, i + 1, searchIndex, 0, maxConsecutive)

\* fieldValue.split(/\s+/): the words, each as its first and last position.
\* The empty words split yields beside leading or trailing white space
\* neither start with nor include a search term, which is not empty.
words(fieldValue) ==
    {w \in (1..Len(fieldValue)) \X (1..Len(fieldValue)) :
        /\ w[1] <= w[2]
        /\ \A k \in w[1]..w[2] : ~IsSpace(fieldValue[k])
        /\ w[1] = 1 \/ IsSpace(fieldValue[w[1] - 1])
        /\ w[2] = Len(fieldValue) \/ IsSpace(fieldValue[w[2] + 1])}

\* the score of one account, times search.length
scoreTimesLength(searchTerm, account, field) ==
    LET fieldValue    == toLowerCase(StringOfField(account, field))
        search        == toLowerCase(searchTerm)
        scan          == inOrderScan(fieldValue, search, 1, 0, 0, 0)
        matchingChars == Cardinality({i \in 1..Len(fieldValue) :
                                         \E j \in 1..Len(search) : search[j] = fieldValue[i]})
        wordStarts    == Cardinality({w \in words(fieldValue) :
                                         startsWith(SubSeq(fieldValue, w[1], w[2]), search)})
        wordIncludes  == Cardinality({w \in words(fieldValue) :
                                         includes(SubSeq(fieldValue, w[1], w[2]), search)})
        lengthDiff    == IF Len(fieldValue) >= Len(search)
                         THEN Len(fieldValue) - Len(search)
                         ELSE Len(search) - Len(fieldValue)
        points        == (IF fieldValue = search THEN 1000 ELSE 0)
                         + (IF startsWith(fieldValue, search) THEN 500 ELSE 0)
                         + (IF includes(fieldValue, search) THEN 200 ELSE 0)
                         + (IF scan.searchIndex = Len(search)
                            THEN 150 + (scan.maxConsecutive * 20) ELSE 0)
                         + (wordStarts * 100) + (wordIncludes * 50)
                         - (IF lengthDiff > 10 THEN lengthDiff * 2 ELSE lengthDiff)
    IN  (Len(search) * points) + (matchingChars * 50)

\* accounts.map(account => ({ account, score, fieldValue }))
scored(searchTerm, accounts, field) ==
    [i \in 1..Len(accounts) |->
        [account    |-> accounts[i],
         score      |-> scoreTimesLength(searchTerm, accounts[i], field),
         fieldValue |-> toLowerCase(StringOfField(accounts[i], field))]]

\* Variant: the lowest score first.
RECURSIVE insertScored_ascending(_, _)
insertScored_ascending(sorted, x) ==
    IF sorted = <<>> THEN <<x>>
    ELSE IF sorted[Len(sorted)].score > x.score
         THEN insertScored_ascending(SubSeq(sorted, 1, Len(sorted) - 1), x)
                  \o <<sorted[Len(sorted)]>>
         ELSE sorted \o <<x>>

\* .sort((a, b) => b.score - a.score), a stable sort: placing one item
RECURSIVE insertScored(_, _)
insertScored(sorted, x) ==
    IF sorted = <<>> THEN <<x>>
    ELSE IF sorted[Len(sorted)].score < x.score
         THEN insertScored(SubSeq(sorted, 1, Len(sorted) - 1), x) \o <<sorted[Len(sorted)]>>
         ELSE sorted \o <<x>>

RECURSIVE sortScored(_)
sortScored(items) ==
    IF items = <<>> THEN <<>>
    ELSE insertScored(sortScored(SubSeq(items, 1, Len(items) - 1)), items[Len(items)])

\* Variant: an item is kept whether its value was seen or not.
RECURSIVE uniqueLoop_keepAll(_, _, _)
uniqueLoop_keepAll(sorted, i, unique) ==
    IF i > Len(sorted) THEN unique
    ELSE IF Len(unique) + 1 >= 5 THEN Append(unique, sorted[i])
    ELSE uniqueLoop_keepAll(sorted, i + 1, Append(unique, sorted[i]))

\* for (const item of sorted) { if (!seen.has(item.fieldValue)) ... }: the
\* loop from item i on; seen holds the field values of unique
RECURSIVE uniqueLoop(_, _, _)
uniqueLoop(sorted, i, unique) ==
    IF i > Len(sorted) THEN unique
    ELSE IF \E k \in 1..Len(unique) : unique[k].fieldValue = sorted[i].fieldValue
         THEN uniqueLoop(sorted, i + 1, unique)
    ELSE IF Len(unique) + 1 >= 5 THEN Append(unique, sorted[i])
    ELSE uniqueLoop(sorted, i + 1, Append(unique, sorted[i]))

\* findClosestMatches(searchTerm, accounts, field)
findClosestMatches(searchTerm, accounts, field) ==
    IF searchTerm = <<>> THEN <<>>
    ELSE LET sorted == SelectSeq(sortScored(scored(searchTerm, accounts, field)),
                                 LAMBDA item : item.score > 0)
             unique == uniqueLoop(sorted, 1, <<>>)
         IN  [i \in 1..Len(unique) |-> unique[i].account]

----------------------------------------------------------------------------
(* Predicate evaluator.  A condition (AdvancedFilter) is a record          *)
(*   [id, logic, field, operator, values, inputValue, startDate, endDate]; *)
(* an absent startDate or endDate reads as the empty string, as in         *)
(* filter.startDate || ''.                                                 *)

AdvancedFilter(id, logic, field, operator, values, inputValue, startDate, endDate) ==
    [id |-> id, logic |-> logic, field |-> field, operator |-> operator, values |-> values,
     inputValue |-> inputValue, startDate |-> startDate, endDate |-> endDate]

NUMERIC_OPERATORS == <<"is", "contains", ">", "<", ">=", "<=">>

DATE_OPERATORS == <<"is", "contains", "before", "after">>

TEXT_OPERATORS == <<"is", "contains", "does not contain", "starts with">>

\* type FilterOperator
FilterOperators ==
    {"is", "contains", "does not contain", "starts with", ">", "<", ">=", "<=", "before", "after"}

\* Variant: the bounds of a date range are exclusive.
matchesDateRange_exclusive(accountDate, start, end) ==
    IF start # <<>> /\ end = <<>> THEN StrLess(start, accountDate)
    ELSE IF start = <<>> /\ end # <<>> THEN StrLess(accountDate, end)
    ELSE IF start # <<>> /\ end # <<>>
         THEN StrLess(start, accountDate) /\ StrLess(accountDate, end)
    ELSE TRUE

\* the date branch of PrimarySearchPage.evaluateFilter
matchesDateRange(accountDate, start, end) ==
    IF start # <<>> /\ end = <<>> THEN StrLeq(start, accountDate)
    ELSE IF start = <<>> /\ end # <<>> THEN StrLeq(accountDate, end)
    ELSE IF start # <<>> /\ end # <<>>
         THEN StrLeq(start, accountDate) /\ StrLeq(accountDate, end)
    ELSE TRUE

\* Variant: an empty operand list is not passed over.
hasNoValues_never(filter) == FALSE

\* if (!filter.values.length) return true
hasNoValues(filter) == Len(filter.values) = 0

\* The arms of switch (filter.operator); the secondary page repeats them
\* word for word.  fieldValue is account[filter.field].

\* case 'is'
matchesIs(fieldString, filterValues) ==
    \E i \in 1..Len(filterValues) : toLowerCase(fieldString) = toLowerCase(filterValues[i])

\* Variant: the operand is not lower-cased.
matchesContains_caseSensitive(fieldString, filterValues) ==
    \E i \in 1..Len(filterValues) : includes(toLowerCase(fieldString), filterValues[i])

\* case 'contains'
matchesContains(fieldString, filterValues) ==
    \E i \in 1..Len(filterValues) :
        includes(toLowerCase(fieldString), toLowerCase(filterValues[i]))

\* Variant: some operand is absent, rather than every operand.
matchesDoesNotContain_any(fieldString, filterValues) ==
    \E i \in 1..Len(filterValues) :
        ~includes(toLowerCase(fieldString), toLowerCase(filterValues[i]))

\* case 'does not contain'
matchesDoesNotContain(fieldString, filterValues) ==
    \A i \in 1..Len(filterValues) :
        ~includes(toLowerCase(fieldString), toLowerCase(filterValues[i]))

\* case 'starts with'
matchesStartsWith(fieldString, filterValues) ==
    \E i \in 1..Len(filterValues) :
        startsWith(toLowerCase(fieldString), toLowerCase(filterValues[i]))

\* case '>'
matchesGreater(fieldNumber, filterValues) ==
    \E i \in 1..Len(filterValues) : NumGreater(fieldNumber, NumberOfString(filterValues[i]))

\* case '<'
matchesLess(fieldNumber, filterValues) ==
    \E i \in 1..Len(filterValues) : NumLess(fieldNumber, NumberOfString(filterValues[i]))

\* case '>='
matchesGeq(fieldNumber, filterValues) ==
    \E i \in 1..Len(filterValues) : NumGeq(fieldNumber, NumberOfString(filterValues[i]))

\* case '<='
matchesLeq(fieldNumber, filterValues) ==
    \E i \in 1..Len(filterValues) : NumLeq(fieldNumber, NumberOfString(filterValues[i]))

\* case 'before' (secondary page)
matchesBefore(fieldString, filterValues) ==
    \E i \in 1..Len(filterValues) : StrLess(fieldString, filterValues[i])

\* case 'after' (secondary page)
matchesAfter(fieldString, filterValues) ==
    \E i \in 1..Len(filterValues) : StrLess(filterValues[i], fieldString)

\* PrimarySearchPage.evaluateFilter
Primary_evaluateFilter(account, filter) ==
    IF filter.field = "dateAdded"
    THEN matchesDateRange(StringOfField(account, filter.field), filter.startDate, filter.endDate)
    ELSE IF hasNoValues(filter) THEN TRUE
    ELSE LET fieldString  == StringOfField(account, filter.field)
             fieldNumber  == NumberOfField(account, filter.field)
             filterValues == filter.values
         IN  CASE filter.operator = "is" -> matchesIs(fieldString, filterValues)
               [] filter.operator = "contains" -> matchesContains(fieldString, filterValues)
               [] filter.operator = "does not contain" ->
                    matchesDoesNotContain(fieldString, filterValues)
               [] filter.operator = "starts with" -> matchesStartsWith(fieldString, filterValues)
               [] filter.operator = ">" -> matchesGreater(fieldNumber, filterValues)
               [] filter.operator = "<" -> matchesLess(fieldNumber, filterValues)
               [] filter.operator = ">=" -> matchesGeq(fieldNumber, filterValues)
               [] filter.operator = "<=" -> matchesLeq(fieldNumber, filterValues)
               [] OTHER -> TRUE

\* SecondarySearchPage.evaluateFilter
Secondary_evaluateFilter(account, filter) ==
    IF hasNoValues(filter) THEN TRUE
    ELSE LET fieldString  == StringOfField(account, filter.field)
             fieldNumber  == NumberOfField(account, filter.field)
             filterValues == filter.values
         IN  CASE filter.operator = "is" -> matchesIs(fieldString, filterValues)
               [] filter.operator = "contains" -> matchesContains(fieldString, filterValues)
               [] filter.operator = "does not contain" ->
                    matchesDoesNotContain(fieldString, filterValues)
               [] filter.operator = "starts with" -> matchesStartsWith(fieldString, filterValues)
               [] filter.operator = ">" -> matchesGreater(fieldNumber, filterValues)
               [] filter.operator = "<" -> matchesLess(fieldNumber, filterValues)
               [] filter.operator = ">=" -> matchesGeq(fieldNumber, filterValues)
               [] filter.operator = "<=" -> matchesLeq(fieldNumber, filterValues)
               [] filter.operator = "before" -> matchesBefore(fieldString, filterValues)
               [] filter.operator = "after" -> matchesAfter(fieldString, filterValues)
               [] OTHER -> TRUE

\* the operators the switch of page p has a case for
HandledOperators(p) ==
    {"is", "contains", "does not contain", "starts with", ">", "<", ">=", "<="}
        \cup (IF p = "primary" THEN {} ELSE {"before", "after"})

\* Variant: an operator without a case matches no record.
evaluateFilter_unknownFails(p, account, filter) ==
    /\ IF p = "primary" THEN Primary_evaluateFilter(account, filter)
       ELSE Secondary_evaluateFilter(account, filter)
    /\ filter.operator \in HandledOperators(p)

\* the page's evaluateFilter
evaluateFilter(p, account, filter) ==
    IF p = "primary" THEN Primary_evaluateFilter(account, filter)
    ELSE Secondary_evaluateFilter(account, filter)

----------------------------------------------------------------------------
(* Query engine: the filter callback of filteredAccounts *)

\* for (let i = 0; i < executedAdvancedFilters.length; i++) { ... }:
\* the loop from condition i on, result being the accumulator so far
RECURSIVE compoundLoop(_, _, _, _, _)
compoundLoop(p, account, filters, i, result) ==
    IF i > Len(filters) THEN result
    ELSE LET filter  == filters[i]
             matches == evaluateFilter(p, account, filter)
         IN  compoundLoop(p, account, filters, i + 1,
                          IF i = 1 THEN matches
                          ELSE IF filter.logic = "And" THEN result /\ matches
                          ELSE result \/ matches)

\* Variant: And binds tighter than Or.
compoundResult_andFirst(p, account, filters) ==
    \E i \in 1..Len(filters) :
        /\ i = 1 \/ filters[i].logic = "Or"
        /\ \A j \in i..Len(filters) :
              (\A k \in (i + 1)..j : filters[k].logic = "And")
                  => evaluateFilter(p, account, filters[j])

\* Variant: a condition joined by And replaces the result so far.
compoundResult_lastAnd(p, account, filters) ==
    \/ filters = <<>>
    \/ \E i \in 1..Len(filters) :
          /\ evaluateFilter(p, account, filters[i])
          /\ \A j \in (i + 1)..Len(filters) : filters[j].logic = "Or"

\* let result = true; for (...) ...: the compound result of a chain
compoundResult(p, account, filters) == compoundLoop(p, account, filters, 1, TRUE)

\* Variant: a case-sensitive term is looked up anywhere in the value.
matchesField_containsOnly(account, filters, field) ==
    LET searchValue   == filters[field]
        fieldValue    == StringOfField(account, field)
        caseSensitive == filters.caseSensitive[field]
    IN  IF searchValue = <<>> THEN TRUE
        ELSE IF caseSensitive THEN includes(fieldValue, searchValue)
        ELSE includes(toLowerCase(fieldValue), toLowerCase(searchValue))

\* searchFields.every(field => ...) on one field
matchesField(account, filters, field) ==
    LET searchValue   == filters[field]
        fieldValue    == StringOfField(account, field)
        caseSensitive == filters.caseSensitive[field]
    IN  IF searchValue = <<>> THEN TRUE
        ELSE IF caseSensitive
             THEN IF IsDigit(searchValue[1]) THEN startsWith(fieldValue, searchValue)
                  ELSE IF IsLetter(searchValue[1]) THEN startsWith(fieldValue, searchValue)
                  ELSE includes(fieldValue, searchValue)
        ELSE includes(toLowerCase(fieldValue), toLowerCase(searchValue))

\* const matchesSearch = searchFields.every(...)
matchesSearch(account, filters) ==
    \A k \in 1..Len(SEARCHABLE_FIELDS) : matchesField(account, filters, SEARCHABLE_FIELDS[k])

\* Variant: the status filter is not consulted.
Primary_filterCallback_noStatus(account, executedAdvanced, executedSearch) ==
    IF Len(executedAdvanced) > 0 /\ ~compoundResult("primary", account, executedAdvanced)
    THEN FALSE
    ELSE matchesSearch(account, executedSearch)

\* PrimarySearchPage: mockAccounts.filter((account) => ...)
Primary_filterCallback(account, executedAdvanced, executedSearch) ==
    IF Len(executedAdvanced) > 0 /\ ~compoundResult("primary", account, executedAdvanced)
    THEN FALSE
    ELSE IF executedSearch.status # {} /\ account.status \notin executedSearch.status
         THEN FALSE
    ELSE matchesSearch(account, executedSearch)

\* SecondarySearchPage: mockAccounts.filter((account) => ...)
Secondary_filterCallback(account, executedAdvanced, executedSearch) ==
    IF Len(executedAdvanced) > 0 /\ ~compoundResult("secondary", account, executedAdvanced)
    THEN FALSE
    ELSE matchesSearch(account, executedSearch)

----------------------------------------------------------------------------
(* State of a search page.  One page is mounted at a time; page says       *)
(* which.  The secondary page has no status filter, no executed sort key,  *)
(* no filter panel and no advanced-filter switch: those keep their first   *)
(* value there.                                                            *)

VARIABLES
    page,                     \* "primary" or "secondary"
    searchFilters,            \* what the user is typing
    executedSearchFilters,    \* what was used for the current results
    sortBy,
    executedSortBy,
    validationError,
    advancedFilters,          \* the chain being built
    executedAdvancedFilters,  \* the chain applied
    showFilterPanel,
    showAdvancedFilters,
    filterErrors,             \* condition id -> message
    sortGiven,                \* sorter calls: the list handed to the first call
    sortCaller,               \* the caller's array, as the calls leave it
    sortField,                \* the field of the calls
    sortReturned,             \* the lists the calls returned, in order
    matchTerm,                \* matcher calls: the search term,
    matchField,               \* the field
    matchGiven,               \* and the collection handed to the call
    matchScores,              \* the scores the call gave the records given
    matchReturned,            \* the lists the calls returned, in order
    validateField,            \* validator calls: the field
    validateValue,            \* and the value handed to the call
    validateReturned,         \* the results the calls returned, in order
    evalGiven,                \* evaluator calls: the page, record and condition
    evalReturned,             \* the results the calls returned, in order
    today                     \* the date the clock shows, as YYYY-MM-DD

pageVars ==
    <<page, searchFilters, executedSearchFilters, sortBy, executedSortBy, validationError,
      advancedFilters, executedAdvancedFilters, showFilterPanel, showAdvancedFilters,
      filterErrors>>

sortVars == <<sortGiven, sortCaller, sortField, sortReturned>>

matchVars == <<matchTerm, matchField, matchGiven, matchScores, matchReturned>>

validateVars == <<validateField, validateValue, validateReturned>>

evalVars == <<evalGiven, evalReturned>>

utilVars == <<sortVars, matchVars, validateVars, evalVars, today>>

vars == <<pageVars, utilVars>>

Pages == {"primary", "secondary"}

null == "null"

\* useState<SearchFilters>({...})
initialSearchFilters ==
    [accountNumber |-> <<>>, companyName |-> <<>>, contactName |-> <<>>,
     phoneNumber |-> <<>>, email |-> <<>>, status |-> {},
     caseSensitive |-> [f \in {"accountNumber", "companyName", "contactName",
                               "phoneNumber", "email"} |-> FALSE]]

\* useState<AdvancedFilter[]>([{ id: '1', logic: 'And', ... }])
initialAdvancedFilters ==
    <<AdvancedFilter(1, "And", "accountNumber", "is", <<>>, <<>>, <<>>, <<>>)>>

noFilterErrors == [id \in {} |-> ""]

\* the dates the clock shows, in order
ClockDates ==
    <<<<"2","0","2","4","-","0","1","-","1","5">>, <<"2","0","2","4","-","0","6","-","0","1">>>>

\* the state the component is constructed with
PageInit(p) ==
    /\ page = p
    /\ today = ClockDates[1]
    /\ searchFilters = initialSearchFilters
    /\ executedSearchFilters = initialSearchFilters
    /\ sortBy = DEFAULT_SORT_FIELD
    /\ executedSortBy = DEFAULT_SORT_FIELD
    /\ validationError = null
    /\ advancedFilters = initialAdvancedFilters
    /\ executedAdvancedFilters = <<>>
    /\ showFilterPanel = FALSE
    /\ showAdvancedFilters = FALSE
    /\ filterErrors = noFilterErrors

\* let filteredAccounts = mockAccounts.filter(...); then sorted: the result
\* list of the current render
resultList(p, executedAdvanced, executedSearch, sortKey, executedSortKey) ==
    IF p = "primary"
    THEN sortAccountsByField(
             SelectSeq(mockAccounts,
                       LAMBDA a : Primary_filterCallback(a, executedAdvanced, executedSearch)),
             executedSortKey).result
    ELSE sortAccountsByField(
             SelectSeq(mockAccounts,
                       LAMBDA a : Secondary_filterCallback(a, executedAdvanced, executedSearch)),
             sortKey).result

\* the result list of the current render
filteredAccounts ==
    resultList(page, executedAdvancedFilters, executedSearchFilters, sortBy, executedSortBy)

\* const hasSearchTerm = Object.entries(executedSearchFilters).some(...)
hasSearchTerm ==
    \E key \in DOMAIN executedSearchFilters \ {"caseSensitive", "status"} :
        trim(executedSearchFilters[key]) # <<>>

\* const hasAdvancedFilterTerm = executedAdvancedFilters.some(...)
hasAdvancedFilterTerm ==
    \E k \in 1..Len(executedAdvancedFilters) :
        /\ executedAdvancedFilters[k].field # "dateAdded"
        /\ \E i \in 1..Len(executedAdvancedFilters[k].values) :
              trim(executedAdvancedFilters[k].values[i]) # <<>>

\* executedAdvancedFilters.forEach(...): the entry the loop leaves for a field
\* the simple search gave no entry: the matches of the first non-blank
\* operand on that field that has matches
advancedSuggestions(field) ==
    LET places == UNION {{<<k, i>> : i \in 1..Len(executedAdvancedFilters[k].values)} :
                            k \in 1..Len(executedAdvancedFilters)}
        hits == {h \in places :
                    /\ executedAdvancedFilters[h[1]].field = field
                    /\ field # "dateAdded"
                    /\ trim(executedAdvancedFilters[h[1]].values[h[2]]) # <<>>
                    /\ findClosestMatches(executedAdvancedFilters[h[1]].values[h[2]],
                                          mockAccounts, field) # <<>>}
        first == CHOOSE h \in hits :
                    \A g \in hits : h[1] < g[1] \/ (h[1] = g[1] /\ h[2] <= g[2])
    IN  IF hits = {} THEN <<>>
        ELSE findClosestMatches(executedAdvancedFilters[first[1]].values[first[2]],
                                mockAccounts, field)

\* SEARCHABLE_FIELDS.forEach(...), then the loop over the executed chain:
\* fieldSuggestions[field], <<>> when the key is not set
fieldSuggestion(field) ==
    LET searchValue == IF \E k \in 1..Len(SEARCHABLE_FIELDS) : SEARCHABLE_FIELDS[k] = field
                       THEN executedSearchFilters[field] ELSE <<>>
        matches == IF trim(searchValue) # <<>>
                   THEN findClosestMatches(searchValue, mockAccounts, field)
                   ELSE <<>>
    IN  IF matches # <<>> THEN matches ELSE advancedSuggestions(field)

\* const suggestions = useMemo(...): the map from field to records; null is
\* kept as the map without keys, which the code never returns
noSuggestions == [field \in {} |-> <<>>]

\* Variant: the result list is not looked at.
suggestions_whateverTheResults ==
    IF ~hasSearchTerm /\ ~hasAdvancedFilterTerm THEN noSuggestions
    ELSE LET keys == {field \in AccountFields : fieldSuggestion(field) # <<>>}
         IN  [field \in keys |-> fieldSuggestion(field)]

suggestions ==
    IF Len(filteredAccounts) > 0 THEN noSuggestions
    ELSE IF ~hasSearchTerm /\ ~hasAdvancedFilterTerm THEN noSuggestions
    ELSE LET keys == {field \in AccountFields : fieldSuggestion(field) # <<>>}
         IN  [field \in keys |-> fieldSuggestion(field)]

\* the values shown for one entry of the map: the first value of each group
\* of values equal after toLowerCase().trim()
uniqueSuggestions(accountList, field) ==
    {StringOfField(accountList[i], field) : i \in
        {i \in 1..Len(accountList) :
            \A j \in 1..(i - 1) :
                trim(toLowerCase(StringOfField(accountList[j], field)))
                    # trim(toLowerCase(StringOfField(accountList[i], field)))}}

\* a suggestion button: onClick
suggestionOnClick(field, value) ==
    /\ LET shown == suggestions
       IN  /\ field \in DOMAIN shown
           /\ value \in uniqueSuggestions(shown[field], field)
    /\ LET newSearchFilters ==
               [key \in DOMAIN searchFilters \cup {field} |->
                   IF key = field THEN value ELSE searchFilters[key]]
       IN  /\ searchFilters' = newSearchFilters
           /\ executedSearchFilters' =
                  [key \in DOMAIN executedSearchFilters \cup DOMAIN newSearchFilters |->
                      IF key \in DOMAIN newSearchFilters THEN newSearchFilters[key]
                      ELSE executedSearchFilters[key]]
    /\ validationError' = null
    /\ UNCHANGED <<page, sortBy, executedSortBy, advancedFilters, executedAdvancedFilters,
                   showFilterPanel, showAdvancedFilters, filterErrors, utilVars>>

----------------------------------------------------------------------------
(* Search execution *)

\* the first failing validation of handleSearch's loop over accountNumber,
\* phoneNumber, email; "undefined" when all pass
searchValidationError(filters) ==
    IF ~validateSearchInput("accountNumber", filters.accountNumber).valid
    THEN validateSearchInput("accountNumber", filters.accountNumber).error
    ELSE IF ~validateSearchInput("phoneNumber", filters.phoneNumber).valid
         THEN validateSearchInput("phoneNumber", filters.phoneNumber).error
    ELSE IF ~validateSearchInput("email", filters.email).valid
         THEN validateSearchInput("email", filters.email).error
    ELSE "undefined"

\* PrimarySearchPage.handleSearch (Enter in a search box)
Primary_handleSearch ==
    /\ page = "primary"
    /\ IF searchValidationError(searchFilters) # "undefined"
       THEN /\ validationError' = searchValidationError(searchFilters)
            /\ UNCHANGED <<executedSearchFilters, executedSortBy>>
       ELSE /\ validationError' = null
            /\ executedSearchFilters' = searchFilters
            /\ executedSortBy' = sortBy
    /\ UNCHANGED <<page, searchFilters, sortBy, advancedFilters, executedAdvancedFilters,
                   showFilterPanel, showAdvancedFilters, filterErrors, utilVars>>

\* the checks handleApplyFilters makes on one condition: its message, or
\* "undefined" when the condition passes
conditionValidationError(filter) ==
    IF /\ filter.field = "dateAdded"
       /\ filter.startDate # <<>> /\ filter.endDate # <<>>
       /\ StrLess(filter.endDate, filter.startDate)
    THEN "Start date cannot be after end date in advanced filters."
    ELSE LET bad == {i \in 1..Len(filter.values) :
                        ~validateSearchInput(filter.field, filter.values[i]).valid}
         IN  IF bad = {} THEN "undefined"
             ELSE validateSearchInput(filter.field, filter.values[Min(bad)]).error

\* PrimarySearchPage.handleApplyFilters (Apply Filters in the filter panel)
Primary_handleApplyFilters ==
    /\ page = "primary"
    /\ showFilterPanel
    /\ LET failing == IF showAdvancedFilters
                      THEN {i \in 1..Len(advancedFilters) :
                                conditionValidationError(advancedFilters[i]) # "undefined"}
                      ELSE {}
       IN  IF failing # {}
           THEN /\ validationError' = conditionValidationError(advancedFilters[Min(failing)])
                /\ UNCHANGED <<executedAdvancedFilters, executedSearchFilters, executedSortBy,
                               showFilterPanel>>
           ELSE /\ executedAdvancedFilters' = IF showAdvancedFilters THEN advancedFilters ELSE <<>>
                \* handleSearch()
                /\ IF searchValidationError(searchFilters) # "undefined"
                   THEN /\ validationError' = searchValidationError(searchFilters)
                        /\ UNCHANGED <<executedSearchFilters, executedSortBy>>
                   ELSE /\ validationError' = null
                        /\ executedSearchFilters' = searchFilters
                        /\ executedSortBy' = sortBy
                /\ showFilterPanel' = FALSE
    /\ UNCHANGED <<page, searchFilters, sortBy, advancedFilters, showAdvancedFilters,
                   filterErrors, utilVars>>

\* the Filters button: setShowFilterPanel(true)
Primary_openFilterPanel ==
    /\ page = "primary"
    /\ ~showFilterPanel
    /\ showFilterPanel' = TRUE
    /\ UNCHANGED <<page, searchFilters, executedSearchFilters, sortBy, executedSortBy,
                   validationError, advancedFilters, executedAdvancedFilters,
                   showAdvancedFilters, filterErrors, utilVars>>

\* SecondarySearchPage.handleSearch (the Search button, Enter)
Secondary_handleSearch ==
    /\ page = "secondary"
    /\ IF searchValidationError(searchFilters) # "undefined"
       THEN /\ validationError' = searchValidationError(searchFilters)
            /\ UNCHANGED executedSearchFilters
       ELSE /\ validationError' = null
            /\ executedSearchFilters' = searchFilters
    /\ UNCHANGED <<page, searchFilters, sortBy, executedSortBy, advancedFilters,
                   executedAdvancedFilters, showFilterPanel, showAdvancedFilters,
                   filterErrors, utilVars>>

\* SecondarySearchPage.handleApplyFilters
Secondary_handleApplyFilters ==
    /\ page = "secondary"
    /\ validationError' = null
    /\ filterErrors' = noFilterErrors
    /\ executedAdvancedFilters' = advancedFilters
    /\ executedSearchFilters' = searchFilters
    /\ UNCHANGED <<page, searchFilters, sortBy, executedSortBy, advancedFilters,
                   showFilterPanel, showAdvancedFilters, utilVars>>

----------------------------------------------------------------------------
(* Inputs.  The texts a user types, the conditions the controls of a page  *)
(* can hold, and the lists handed to the sorter, each from a small set.    *)

MaxValues == 2

MaxChain == 3

MaxPopulated == 2

MaxStatuses == 1

MaxListLen == 3

\* getOperatorsForField (the same table on both pages)
getOperatorsForField(field) ==
    CASE field = "balance" -> NUMERIC_OPERATORS
      [] field = "phoneNumber" -> TEXT_OPERATORS
      [] field = "dateAdded" -> DATE_OPERATORS
      [] OTHER -> TEXT_OPERATORS

Range(f) == {f[x] : x \in DOMAIN f}

\* the fields of the advanced-filter field selector, but dateAdded
ValueFields == {"accountNumber", "companyName", "contactName", "phoneNumber", "email", "balance"}

\* operands a user adds to a condition on the field.  The primary page
\* accepts an operand only when it passes addValueToFilter's checks (balance
\* an unsigned decimal, phone digits and formatting, account number without
\* letters); the secondary page accepts any non-blank text, and for
\* dateAdded the value of its date input.
OperandPool(p, field) ==
    CASE field = "accountNumber" -> {<<"1","2","3","4","5","6","7","8">>, <<"1","2","3">>, <<"9","9">>}
      [] field = "companyName" -> {<<"A","C","M","E"," ","C","O","R","P">>, <<"c","o","r","p">>, <<"T","e","c","h">>}
      [] field = "contactName" -> {<<"j","o","h","n">>, <<"S","m","i","t","h">>, <<"J","A","N","E"," ","B","R","O","W","N">>}
      [] field = "phoneNumber" -> {<<"5","5","5">>, <<"(","5","5","5",")"," ","1","2","3","-","4","5","6","7">>, <<"0","1","9","9">>}
      [] field = "email" -> {<<"e","x","a","m","p","l","e",".","c","o","m">>, <<"J","O","H","N">>, <<"j","a","n","e",".","b","r","o","w","n","@","e","x","a","m","p","l","e",".","c","o","m">>}
      [] field = "balance" -> IF p = "primary"
                              THEN {<<"1","0","0","0">>, <<"9","9","9",".","5">>, <<"5","0","0","0">>}
                              ELSE {<<"1","0","0","0">>, <<"-","2","0","0">>, <<"a","b","c">>}
      [] field = "dateAdded" -> IF p = "primary" THEN {}
                                ELSE {<<"2","0","2","4","-","0","1","-","1","5">>, <<"2","0","2","1","-","1","2","-","0","1">>, <<"2","0","2","0">>}

\* the dates entered as bounds on the primary page
BoundDates == {<<"2","0","2","1","-","1","2","-","0","1">>, <<"2","0","2","4","-","0","1","-","1","5">>}

ValueLists(pool) == UNION {[1..k -> pool] : k \in 0..MaxValues}

\* a chain of one condition on a field with operands
ValueConditions(p) ==
    UNION {UNION {{AdvancedFilter(1, "And", f, op, vs, <<>>, <<>>, <<>>) :
                      vs \in ValueLists(OperandPool(p, f))} :
                  op \in Range(getOperatorsForField(f))} :
           f \in ValueFields \cup (IF p = "primary" THEN {} ELSE {"dateAdded"})}

\* a date condition of the primary page: the field change leaves operator
\* 'is' and no operand, the date inputs set the bounds, start <= end
DateConditions(p) ==
    IF p = "primary"
    THEN {AdvancedFilter(1, "And", "dateAdded", "is", <<>>, <<>>, s, e) :
            <<s, e>> \in {b \in (BoundDates \cup {<<>>}) \X (BoundDates \cup {<<>>}) :
                            b[1] = <<>> \/ b[2] = <<>> \/ StrLeq(b[1], b[2])}}
    ELSE {}

\* three conditions to chain: each holds of some records and fails of
\* others
PaletteConditions(p) ==
    <<AdvancedFilter(0, "And", "companyName", "contains", <<<<"a","c","m","e">>>>, <<>>, <<>>, <<>>),
      AdvancedFilter(0, "And", "balance", ">", <<<<"1","0","0","0">>>>, <<>>, <<>>, <<>>),
      AdvancedFilter(0, "And", "contactName", "starts with", <<<<"j","o","h","n">>>>, <<>>, <<>>, <<>>)>>

\* the chains of up to MaxChain palette conditions, each with its logic tag
\* (the first condition of a chain carries Or after the condition before it
\* was removed)
PaletteChains(p) ==
    UNION {{[i \in 1..k |-> [PaletteConditions(p)[c[i][1]] EXCEPT !.id = i, !.logic = c[i][2]]] :
               c \in [1..k -> (1..Len(PaletteConditions(p))) \X {"And", "Or"}]} :
           k \in 1..MaxChain}

\* the texts typed in the search boxes
TermPool(field) ==
    CASE field = "accountNumber" -> {<<"1","2","3">>, <<"1","2","a">>}
      [] field = "companyName" -> {<<"a","c","m","e">>, <<"C","o","r","p">>}
      [] field = "contactName" -> {<<"S","m","i","t","h">>}
      [] field = "phoneNumber" -> {<<"(","5","5","5",")">>}
      [] field = "email" -> {<<"@","E","X","A","M","P","L","E">>}

SearchFields == Range(SEARCHABLE_FIELDS)

\* the statuses ticked in the status filter
StatusPool == {"Open", "Closed"}

Populated(filters) == {f \in SearchFields : filters[f] # <<>>}

\* the search sets: at most MaxPopulated boxes filled, the case-sensitive
\* box ticked only beside a filled box, at most MaxStatuses of the
\* statuses of StatusPool ticked (none on the secondary page, which has no
\* status filter)
SearchSets(p) ==
    {s \in [accountNumber : TermPool("accountNumber") \cup {<<>>},
            companyName : TermPool("companyName") \cup {<<>>},
            contactName : TermPool("contactName") \cup {<<>>},
            phoneNumber : TermPool("phoneNumber") \cup {<<>>},
            email : TermPool("email") \cup {<<>>},
            status : IF p = "primary"
                     THEN {st \in SUBSET StatusPool : Cardinality(st) <= MaxStatuses}
                     ELSE {{}},
            caseSensitive : [SearchFields -> BOOLEAN]] :
        /\ Cardinality(Populated(s)) <= MaxPopulated
        /\ \A f \in SearchFields : s.caseSensitive[f] => s[f] # <<>>}

\* what the user has entered before executing a query: either a chain, or
\* a search set with at most one condition
QueryInputs(p) ==
    {[chain |-> c, show |-> TRUE, search |-> initialSearchFilters, sortBy |-> DEFAULT_SORT_FIELD] :
        c \in {<<f>> : f \in ValueConditions(p) \cup DateConditions(p)} \cup PaletteChains(p)}
    \cup
    {[chain |-> c, show |-> c # initialAdvancedFilters, search |-> s, sortBy |-> sb] :
        c \in {initialAdvancedFilters, <<[PaletteConditions(p)[1] EXCEPT !.id = 1]>>},
        s \in SearchSets(p),
        sb \in {"accountNumber", "balance"}}

\* the records handed to the sorter
SortPool ==
 {
    Account("S1", <<"9">>,
            <<"A","c","m","e"," ","C","o","r","p">>,
            <<"J","o","h","n"," ","S","m","i","t","h">>,
            <<"(","5","5","5",")"," ","1","2","3","-","4","5","6","7">>,
            <<"j","o","h","n",".","s","m","i","t","h","@","e","x","a","m","p","l","e",".","c","o","m">>,
            "Open", 5000,
            <<"2","0","2","0","-","0","3","-","0","1">>,
            <<"2","0","2","4","-","0","5","-","0","1">>,
            <<"2","0","2","4","-","0","1","-","1","5">>),
    Account("S2", <<"1","0">>,
            <<"a","c","m","e"," ","c","o","r","p">>,
            <<"J","a","n","e"," ","B","r","o","w","n">>,
            <<"5","5","5","-","1","2","3","-","4","5","6","7">>,
            <<"j","a","n","e",".","b","r","o","w","n","@","e","x","a","m","p","l","e",".","c","o","m">>,
            "Closed", -200,
            <<"2","0","2","1","-","0","7","-","1","9">>,
            <<"2","0","2","3","-","0","2","-","1","1">>,
            <<"2","0","1","9","-","0","6","-","3","0">>),
    Account("S3", <<"1","0","0","0","0","0","0","0">>,
            <<"Z","e","t","a"," ","H","o","l","d","i","n","g","s">>,
            <<"j","o","h","n"," ","s","m","i","t","h">>,
            <<"(","2","1","2",")"," ","5","5","5","-","0","1","9","9">>,
            <<"j","o","h","n",".","d","a","v","i","s","@","e","x","a","m","p","l","e",".","c","o","m">>,
            "Collections", 1000,
            <<"2","0","2","2","-","0","1","-","0","5">>,
            <<"2","0","2","5","-","0","8","-","2","3">>,
            <<"2","0","2","1","-","1","2","-","0","1">>),
    Account("S4", <<"9">>,
            <<"T","e","c","h","S","t","a","r","t"," ","I","n","c">>,
            <<"S","a","r","a","h"," ","S","m","i","t","h">>,
            <<"(","4","1","5",")"," ","1","2","3","-","9","9","9","9">>,
            <<"s","a","r","a","h",".","s","m","i","t","h","@","e","x","a","m","p","l","e",".","c","o","m">>,
            "Open", 1000,
            <<"2","0","2","3","-","1","1","-","3","0">>,
            <<"2","0","2","6","-","0","1","-","0","2">>,
            <<"2","0","2","4","-","0","1","-","1","5">>),
    Account("S5", <<"2","0","0">>,
            <<"A","c","m","e">>,
            <<"J","o">>,
            <<"(","2","1","2",")"," ","5","5","5","-","0","1","9","9">>,
            <<"j","o","@","e","x","a","m","p","l","e",".","c","o","m">>,
            "Suspended", 80000,
            <<"2","0","2","0","-","0","3","-","0","1">>,
            <<"2","0","2","4","-","0","5","-","0","1">>,
            <<"2","0","2","4","-","1","2","-","3","1">>)
 }

SortLists == UNION {[1..k -> SortPool] : k \in 0..MaxListLen}

MaxCollection == 7

\* the records handed to the matcher, in the order of a collection
MatchPool ==
 <<
    Account("M1", <<"1","2","3","4","5","6","7","8">>,
            <<"A","c","m","e"," ","C","o","r","p">>,
            <<"J","o","h","n"," ","S","m","i","t","h">>,
            <<"(","5","5","5",")"," ","1","2","3","-","4","5","6","7">>,
            <<"j","o","h","n","@","e","x","a","m","p","l","e",".","c","o","m">>,
            "Open", 1000,
            <<"2","0","2","0","-","0","3","-","0","1">>,
            <<"2","0","2","4","-","0","5","-","0","1">>,
            <<"2","0","2","4","-","0","1","-","1","5">>),
    Account("M2", <<"1","2","3","4","5","6","7","8">>,
            <<"Z","e","t","a"," ","H","o","l","d","i","n","g","s">>,
            <<"J","a","n","e"," ","B","r","o","w","n">>,
            <<"(","5","5","5",")"," ","1","2","3","-","4","5","6","7">>,
            <<"j","o","h","n","@","e","x","a","m","p","l","e",".","c","o","m">>,
            "Open", 1000,
            <<"2","0","2","0","-","0","3","-","0","1">>,
            <<"2","0","2","4","-","0","5","-","0","1">>,
            <<"2","0","2","4","-","0","1","-","1","5">>),
    Account("M3", <<"1","2","3","4","5","6","7","8">>,
            <<"a","c","m","e"," ","c","o","r","p">>,
            <<"j","o","h","n"," ","s","m","i","t","h">>,
            <<"(","5","5","5",")"," ","1","2","3","-","4","5","6","7">>,
            <<"j","o","h","n","@","e","x","a","m","p","l","e",".","c","o","m">>,
            "Open", 1000,
            <<"2","0","2","0","-","0","3","-","0","1">>,
            <<"2","0","2","4","-","0","5","-","0","1">>,
            <<"2","0","2","4","-","0","1","-","1","5">>),
    Account("M4", <<"1","2","3","4","5","6","7","8">>,
            <<"A","c","m","e"," ","C","o","r","p"," ">>,
            <<"J","o","h","n">>,
            <<"(","5","5","5",")"," ","1","2","3","-","4","5","6","7">>,
            <<"j","o","h","n","@","e","x","a","m","p","l","e",".","c","o","m">>,
            "Open", 1000,
            <<"2","0","2","0","-","0","3","-","0","1">>,
            <<"2","0","2","4","-","0","5","-","0","1">>,
            <<"2","0","2","4","-","0","1","-","1","5">>),
    Account("M5", <<"1","2","3","4","5","6","7","8">>,
            <<"A">>,
            <<"J","o">>,
            <<"(","5","5","5",")"," ","1","2","3","-","4","5","6","7">>,
            <<"j","o","h","n","@","e","x","a","m","p","l","e",".","c","o","m">>,
            "Open", 1000,
            <<"2","0","2","0","-","0","3","-","0","1">>,
            <<"2","0","2","4","-","0","5","-","0","1">>,
            <<"2","0","2","4","-","0","1","-","1","5">>),
    Account("M6", <<"1","2","3","4","5","6","7","8">>,
            <<"A"," ","A"," ","A"," ","A"," ","A"," ","A"," ","A">>,
            <<"J">>,
            <<"(","5","5","5",")"," ","1","2","3","-","4","5","6","7">>,
            <<"j","o","h","n","@","e","x","a","m","p","l","e",".","c","o","m">>,
            "Open", 1000,
            <<"2","0","2","0","-","0","3","-","0","1">>,
            <<"2","0","2","4","-","0","5","-","0","1">>,
            <<"2","0","2","4","-","0","1","-","1","5">>),
    Account("M7", <<"1","2","3","4","5","6","7","8">>,
            <<"A","c","m","e">>,
            <<"J","o","a","n">>,
            <<"(","5","5","5",")"," ","1","2","3","-","4","5","6","7">>,
            <<"j","o","h","n","@","e","x","a","m","p","l","e",".","c","o","m">>,
            "Open", 1000,
            <<"2","0","2","0","-","0","3","-","0","1">>,
            <<"2","0","2","4","-","0","5","-","0","1">>,
            <<"2","0","2","4","-","0","1","-","1","5">>),
    Account("M8", <<"1","2","3","4","5","6","7","8">>,
            <<"A","n","e">>,
            <<"X","u">>,
            <<"(","5","5","5",")"," ","1","2","3","-","4","5","6","7">>,
            <<"j","o","h","n","@","e","x","a","m","p","l","e",".","c","o","m">>,
            "Open", 1000,
            <<"2","0","2","0","-","0","3","-","0","1">>,
            <<"2","0","2","4","-","0","5","-","0","1">>,
            <<"2","0","2","4","-","0","1","-","1","5">>)
 >>

\* the collections handed to the matcher: at most MaxCollection records of
\* MatchPool, in its order or in the reverse order
MatchCollections ==
    UNION {LET positions == SelectSeq([i \in 1..Len(MatchPool) |-> i], LAMBDA i : i \in chosen)
               inOrder   == [k \in 1..Len(positions) |-> MatchPool[positions[k]]]
           IN  {inOrder, [k \in 1..Len(inOrder) |-> inOrder[Len(inOrder) + 1 - k]]} :
           chosen \in {c \in SUBSET (1..Len(MatchPool)) : Cardinality(c) <= MaxCollection}}

\* the search terms handed to the matcher on a field
MatchTerms(field) ==
    IF field = "companyName"
    THEN {<<>>, <<"A","n","e">>, <<"A">>, <<"a","c","m","e">>, <<"A","c","m","e"," ","C","o","r","p">>, <<"x","q">>}
    ELSE {<<>>, <<"J","o">>, <<"j","o","h","n">>, <<"J","o","h","n"," ","S","m","i","t","h">>, <<"x","q">>, <<"J">>}

\* the fields the matcher is called on
MatchFields == {"companyName", "contactName"}

\* the values handed to the validator
ValidatePool ==
    {<<>>, <<"a","b","c","1","2","3">>,
     <<"1","2","3","4","5","6","7","8">>,
     <<"(","5","5","5",")"," ","a","b","c","-","4","5","6","7">>,
     <<"(","5","5","5",")"," ","1","2","3","-","4","5","6","7">>,
     <<"a","b","c">>,
     <<"-","5">>,
     <<"1",".">>,
     <<"1","2",".","5">>,
     <<"1","0","0","0">>,
     <<"j","o","h","n","@","e","x","a","m","p","l","e",".","c","o","m">>,
     <<"x","-","(","1",")"," ","2">>,
     <<" ">>}

----------------------------------------------------------------------------
(* Specifications *)

\* no sorter call is under way
SortIdle ==
    /\ sortGiven = <<>>
    /\ sortCaller = <<>>
    /\ sortField = DEFAULT_SORT_FIELD
    /\ sortReturned = <<>>

\* no matcher call is under way
MatchIdle ==
    /\ matchTerm = <<>>
    /\ matchField = DEFAULT_SORT_FIELD
    /\ matchGiven = <<>>
    /\ matchScores = <<>>
    /\ matchReturned = <<>>

\* no validator call is under way
ValidateIdle ==
    /\ validateField = DEFAULT_SORT_FIELD
    /\ validateValue = <<>>
    /\ validateReturned = <<>>

EvalIdle ==
    /\ evalGiven = <<>>
    /\ evalReturned = <<>>

\* Query: a page on which the user has entered a chain or a search set,
\* then executes it.
QueryInit ==
    /\ EvalIdle
    /\ \E p \in Pages :
         \E input \in QueryInputs(p) :
            /\ page = p
            /\ searchFilters = input.search
            /\ executedSearchFilters = initialSearchFilters
            /\ sortBy = input.sortBy
            /\ executedSortBy = DEFAULT_SORT_FIELD
            /\ validationError = null
            /\ advancedFilters = input.chain
            /\ executedAdvancedFilters = <<>>
            /\ showFilterPanel = (p = "primary")
            /\ showAdvancedFilters = (p = "primary" /\ input.show)
            /\ filterErrors = noFilterErrors
    /\ today = ClockDates[1]
    /\ SortIdle
    /\ MatchIdle
    /\ ValidateIdle

QueryNext ==
    \/ Primary_handleSearch
    \/ Primary_handleApplyFilters
    \/ Primary_openFilterPanel
    \/ Secondary_handleSearch
    \/ Secondary_handleApplyFilters

SpecQuery == QueryInit /\ [][QueryNext]_vars

\* the first and the second call of sortAccountsByField(accounts, field) on
\* the caller's array
CallSort ==
    /\ Len(sortReturned) < 2
    /\ LET r == sortAccountsByField(sortCaller, sortField)
       IN  /\ sortCaller' = r.accounts
           /\ sortReturned' = Append(sortReturned, r.result)
    /\ UNCHANGED <<sortGiven, sortField, pageVars, matchVars, validateVars, evalVars, today>>

\* a third call, on the list the first call returned
SortReturned ==
    /\ Len(sortReturned) = 2
    /\ LET r == sortAccountsByField(sortReturned[1], sortField)
       IN  sortReturned' = <<r.accounts, sortReturned[2], r.result>>
    /\ UNCHANGED <<sortGiven, sortCaller, sortField, pageVars, matchVars, validateVars, evalVars, today>>

SortInit ==
    /\ EvalIdle
    /\ PageInit("primary")
    /\ sortGiven \in SortLists
    /\ sortCaller = sortGiven
    /\ sortField \in AccountFields
    /\ sortReturned = <<>>
    /\ MatchIdle
    /\ ValidateIdle

SortNext == CallSort \/ SortReturned

SpecSort == SortInit /\ [][SortNext]_vars

----------------------------------------------------------------------------
(* Properties of the sorter, under SpecSort *)

\* the balances, the dates added and the account numbers of a list, in order
Balances(list) == [i \in 1..Len(list) |-> list[i].balance]

DatesAdded(list) == [i \in 1..Len(list) |-> list[i].dateAdded]

AccountNumbers(list) == [i \in 1..Len(list) |-> list[i].accountNumber]

Reverse(list) == [i \in 1..Len(list) |-> list[Len(list) + 1 - i]]

\* the number a digit string denotes
RECURSIVE DigitsValue(_)
DigitsValue(d) ==
    IF d = <<>> THEN 0
    ELSE 10 * DigitsValue(SubSeq(d, 1, Len(d) - 1)) + (IndexOf(d[Len(d)], DigitChars) - 1)

\* C7: sortAccountsByField leaves the list it is given as it was, returns
\* the same sequence whenever it is called with the same list and field,
\* and returns a list it has returned unchanged when that list is sorted
\* again by the same field.
C7_SortIsPure ==
    /\ sortCaller = sortGiven
    /\ Len(sortReturned) >= 2 => sortReturned[2] = sortReturned[1]
    /\ Len(sortReturned) = 3 =>
          /\ sortReturned[3] = sortReturned[2]
          /\ sortReturned[1] = sortReturned[2]

\* three calls made on a list that was not in order: the caller's list is
\* as given and the three results agree
C7_Witness ==
    /\ Len(sortReturned) = 3
    /\ Len(sortGiven) >= 2
    /\ sortReturned[1] # sortGiven
    /\ sortCaller = sortGiven
    /\ sortReturned[3] = sortReturned[1]

SameSortKey(a, b, field) ==
    CASE field = "accountNumber" -> DigitsValue(a.accountNumber) = DigitsValue(b.accountNumber)
      [] field = "phoneNumber" ->
           SelectSeq(a.phoneNumber, IsDigit) = SelectSeq(b.phoneNumber, IsDigit)
      [] field = "balance" -> a.balance = b.balance
      [] field \in {"dateAdded", "companyName", "contactName", "email"} -> a[field] = b[field]
      [] OTHER -> TRUE

\* the records of the list that are a or b, in the order of the list
Only(list, a, b) == SelectSeq(list, LAMBDA x : x = a \/ x = b)

\* C11: the sort is stable.  Two records whose sort keys are equal on the
\* field stand in the returned list in the order they were given in, and
\* for a field without a comparator (id, status, createdDate, lastActivity)
\* the returned list is the list given.
C11_SortIsStable ==
    \A n \in 1..Len(sortReturned) :
        LET R == sortReturned[n]
        IN  /\ \A i, j \in 1..Len(sortGiven) :
                  SameSortKey(sortGiven[i], sortGiven[j], sortField)
                      => Only(R, sortGiven[i], sortGiven[j])
                             = Only(sortGiven, sortGiven[i], sortGiven[j])
            /\ sortField \in {"id", "status", "createdDate", "lastActivity"} => R = sortGiven

\* a list that is not in account-number order and holds two different
\* records with the same account number comes back reordered, the two in
\* the order given
C11_Witness ==
    /\ sortField = "accountNumber"
    /\ Len(sortReturned) >= 1
    /\ sortReturned[1] # sortGiven
    /\ \E i, j \in 1..Len(sortGiven) :
          /\ i < j
          /\ sortGiven[i] # sortGiven[j]
          /\ sortGiven[i].accountNumber = sortGiven[j].accountNumber
          /\ Only(sortReturned[1], sortGiven[i], sortGiven[j]) = <<sortGiven[i], sortGiven[j]>>

----------------------------------------------------------------------------
(* Properties of the evaluator and the query engine, under SpecQuery *)

\* the records of the collection
Records == Range(mockAccounts)

\* the record is in the list
Listed(list, a) == \E i \in 1..Len(list) : list[i] = a

\* t occurs in s
occursIn(t, s) == \E i \in 0..(Len(s) - Len(t)) : SubSeq(s, i + 1, i + Len(t)) = t

\* the strict left fold of the first n conditions of a chain
RECURSIVE LeftFold(_, _, _, _)
LeftFold(p, a, chain, n) ==
    IF n = 1 THEN evaluateFilter(p, a, chain[1])
    ELSE IF chain[n].logic = "And"
         THEN LeftFold(p, a, chain, n - 1) /\ evaluateFilter(p, a, chain[n])
         ELSE LeftFold(p, a, chain, n - 1) \/ evaluateFilter(p, a, chain[n])

\* C1: for every record and every executed chain of n >= 1 conditions the
\* compound result is the strict left fold, the first condition's logic tag
\* ignored; the chain A; Or B; And C evaluates as (A \/ B) /\ C; and with
\* no simple search or status executed the result list holds exactly the
\* records the fold accepts.
C1_CompoundIsLeftFold ==
    executedAdvancedFilters # <<>> =>
        LET c       == executedAdvancedFilters
            results == filteredAccounts
        IN  \A a \in Records :
                LET m == [i \in 1..Len(c) |-> evaluateFilter(page, a, c[i])]
                IN  /\ compoundResult(page, a, c) = LeftFold(page, a, c, Len(c))
                    /\ (Len(c) = 3 /\ c[2].logic = "Or" /\ c[3].logic = "And")
                          => compoundResult(page, a, c) = ((m[1] \/ m[2]) /\ m[3])
                    /\ executedSearchFilters = initialSearchFilters
                          => (Listed(results, a) <=> LeftFold(page, a, c, Len(c)))

\* a chain A; Or B; And C, its first tag Or, is executed and leaves out a
\* record that A \/ (B /\ C) would keep
C1_Witness ==
    /\ Len(executedAdvancedFilters) = 3
    /\ executedAdvancedFilters[1].logic = "Or"
    /\ executedAdvancedFilters[2].logic = "Or"
    /\ executedAdvancedFilters[3].logic = "And"
    /\ executedSearchFilters = initialSearchFilters
    /\ \E a \in Records :
          LET m == [i \in 1..3 |-> evaluateFilter(page, a, executedAdvancedFilters[i])]
          IN  /\ m[1] /\ ~m[2] /\ ~m[3]
              /\ ~Listed(filteredAccounts, a)

\* the three gates of the primary page
ChainGate(a) ==
    \/ executedAdvancedFilters = <<>>
    \/ LeftFold("primary", a, executedAdvancedFilters, Len(executedAdvancedFilters))

SearchGate(a) ==
    \A f \in SearchFields :
        executedSearchFilters[f] = <<>> \/ matchesField(a, executedSearchFilters, f)

StatusGate(a) ==
    executedSearchFilters.status = {} \/ a.status \in executedSearchFilters.status

\* C2: a record of the collection is in the primary page's result list
\* exactly when the chain gate, the simple-search gate and the status gate
\* all pass, and it is there once.
C2_ThreeGates ==
    page = "primary" =>
        LET results == filteredAccounts
        IN  /\ \A a \in Records :
                  Listed(results, a) <=> (ChainGate(a) /\ SearchGate(a) /\ StatusGate(a))
            /\ \A i, j \in 1..Len(results) : results[i] = results[j] => i = j

\* a chain, a search box and a status are executed together; a record
\* passes all three, and each gate alone turns some record away
C2_Witness ==
    /\ page = "primary"
    /\ executedAdvancedFilters # <<>>
    /\ Populated(executedSearchFilters) # {}
    /\ executedSearchFilters.status # {}
    /\ filteredAccounts # <<>>
    /\ \E a \in Records : ~ChainGate(a)
    /\ \E a \in Records : ChainGate(a) /\ ~SearchGate(a) /\ StatusGate(a)
    /\ \E a \in Records : ~StatusGate(a) /\ SearchGate(a)

\* the conditions of the executed chain
ExecutedConditions == Range(executedAdvancedFilters)

\* C3: a condition on a field other than dateAdded whose operand list is
\* empty matches every record, whatever its operator, on both pages; a
\* chain of one such condition, executed with no simple search and no
\* status, leaves every record of the collection in the result list.
C3_EmptyOperandListMatches ==
    \A c \in ExecutedConditions :
        (c.field # "dateAdded" /\ c.values = <<>>) =>
            /\ \A a \in Records : \A op \in FilterOperators : \A p \in Pages :
                  evaluateFilter(p, a, [c EXCEPT !.operator = op])
            /\ (Len(executedAdvancedFilters) = 1 /\ executedSearchFilters = initialSearchFilters)
                  => Len(filteredAccounts) = Len(mockAccounts)

\* the chain balance > [] is executed and the result list is the collection
C3_Witness ==
    /\ Len(executedAdvancedFilters) = 1
    /\ executedAdvancedFilters[1].field = "balance"
    /\ executedAdvancedFilters[1].operator = ">"
    /\ executedAdvancedFilters[1].values = <<>>
    /\ executedSearchFilters = initialSearchFilters
    /\ Len(filteredAccounts) = Len(mockAccounts)

\* C4: a 'does not contain' condition with operands matches a record
\* exactly when no operand occurs in the record's field value, both
\* lower-cased.
C4_DoesNotContainEveryOperand ==
    \A c \in ExecutedConditions :
        (c.operator = "does not contain" /\ c.values # <<>>) =>
            \A a \in Records :
                evaluateFilter(page, a, c)
                    <=> \A i \in 1..Len(c.values) :
                            ~occursIn(toLowerCase(c.values[i]),
                                      toLowerCase(StringOfField(a, c.field)))

\* a 'does not contain' condition with two operands is executed; a record
\* holding one of them, in another case, and not the other is left out,
\* and a record holding neither is kept
C4_Witness ==
    /\ Len(executedAdvancedFilters) = 1
    /\ executedSearchFilters = initialSearchFilters
    /\ LET c == executedAdvancedFilters[1]
       IN  /\ c.operator = "does not contain"
           /\ Len(c.values) = 2
           /\ \E a \in Records :
                 /\ ~occursIn(c.values[1], StringOfField(a, c.field))
                 /\ occursIn(toLowerCase(c.values[1]), toLowerCase(StringOfField(a, c.field)))
                 /\ ~occursIn(toLowerCase(c.values[2]), toLowerCase(StringOfField(a, c.field)))
                 /\ ~Listed(filteredAccounts, a)
           /\ filteredAccounts # <<>>

\* the test of an operator on one operand
OperandTest(op, a, field, v) ==
    LET text    == toLowerCase(StringOfField(a, field))
        operand == toLowerCase(v)
    IN  CASE op = "is" -> text = operand
          [] op = "contains" -> occursIn(operand, text)
          [] op = "starts with" ->
               Len(operand) <= Len(text) /\ SubSeq(text, 1, Len(operand)) = operand
          [] op = ">" -> NumGreater(NumberOfField(a, field), NumberOfString(v))
          [] op = "<" -> NumLess(NumberOfField(a, field), NumberOfString(v))
          [] op = ">=" -> NumGeq(NumberOfField(a, field), NumberOfString(v))
          [] op = "<=" -> NumLeq(NumberOfField(a, field), NumberOfString(v))
          [] op = "before" -> StrLess(StringOfField(a, field), v)
          [] op = "after" -> StrLess(v, StringOfField(a, field))

\* C5: a condition with operands and operator is, contains, starts with,
\* >, <, >= or <= matches a record exactly when some operand passes the
\* operator's test on the record's field value: the string tests on both
\* sides lower-cased, the numeric tests on both sides converted to numbers.
C5_AnyOperand ==
    \A c \in ExecutedConditions :
        (c.operator \in {"is", "contains", "starts with", ">", "<", ">=", "<="}
            /\ c.values # <<>>) =>
            \A a \in Records :
                evaluateFilter(page, a, c)
                    <=> \E i \in 1..Len(c.values) : OperandTest(c.operator, a, c.field, c.values[i])

\* an 'is' condition with two operands is executed; a record equal to one
\* operand but for its case, and unlike the other, is in the result list
C5_Witness ==
    /\ Len(executedAdvancedFilters) = 1
    /\ executedSearchFilters = initialSearchFilters
    /\ LET c == executedAdvancedFilters[1]
       IN  /\ c.operator = "is"
           /\ Len(c.values) = 2
           /\ \E a \in Records :
                 /\ StringOfField(a, c.field) # c.values[1]
                 /\ OperandTest("is", a, c.field, c.values[1])
                 /\ ~OperandTest("is", a, c.field, c.values[2])
                 /\ Listed(filteredAccounts, a)
           /\ Len(filteredAccounts) < Len(mockAccounts)

\* the record's date is within the bounds of the condition that are set
InDateBounds(a, c) ==
    /\ c.startDate = <<>> \/ ~StrLess(a.dateAdded, c.startDate)
    /\ c.endDate = <<>> \/ ~StrLess(c.endDate, a.dateAdded)

----------------------------------------------------------------------------
(* The matcher, called on a term, a collection and a field *)

\* a call of findClosestMatches(matchTerm, matchGiven, matchField)
CallMatch ==
    /\ Len(matchReturned) < 2
    /\ matchScores' = [i \in 1..Len(matchGiven) |->
                           scored(matchTerm, matchGiven, matchField)[i].score]
    /\ matchReturned' = Append(matchReturned,
                               findClosestMatches(matchTerm, matchGiven, matchField))
    /\ UNCHANGED <<matchTerm, matchField, matchGiven, pageVars, sortVars, validateVars, evalVars, today>>

MatchInit ==
    /\ EvalIdle
    /\ PageInit("primary")
    /\ SortIdle
    /\ ValidateIdle
    /\ matchField \in MatchFields
    /\ matchTerm \in MatchTerms(matchField)
    /\ matchGiven \in MatchCollections
    /\ matchScores = <<>>
    /\ matchReturned = <<>>

MatchNext == CallMatch

SpecMatch == MatchInit /\ [][MatchNext]_vars

----------------------------------------------------------------------------
(* Properties of the matcher, under SpecMatch *)

\* the field value of a record, lower-cased
FoldedValue(a) == toLowerCase(StringOfField(a, matchField))

\* the place of a record in the collection given
PlaceGiven(a) == CHOOSE k \in 1..Len(matchGiven) : matchGiven[k] = a

\* the score the call gave a record of the collection, times the length of
\* the term
ScoreOf(a) == matchScores[PlaceGiven(a)]

C13_AsStated ==
    (/\ matchField = "companyName"
     /\ matchTerm = <<"A","n","e">>
     /\ Len(matchReturned) >= 1) =>
        \A i, j \in 1..Len(matchGiven) :
            (/\ matchGiven[i].companyName = <<"A","c","m","e"," ","C","o","r","p">>
             /\ matchGiven[j].companyName = <<"Z","e","t","a"," ","H","o","l","d","i","n","g","s">>) =>
                /\ ScoreOf(matchGiven[i]) > ScoreOf(matchGiven[j])
                /\ \E k, l \in 1..Len(matchReturned[1]) :
                      /\ k < l
                      /\ matchReturned[1][k] = matchGiven[i]
                      /\ matchReturned[1][l] = matchGiven[j]

\* C14: for a term that is not empty, the records returned stand in
\* non-increasing order of score, records of equal score in the order of
\* the collection, and none has a score of 0 or less.
C14_RankedByScore ==
    matchTerm # <<>> =>
        \A n \in 1..Len(matchReturned) :
            LET R     == matchReturned[n]
                score == [i \in 1..Len(R) |-> ScoreOf(R[i])]
            IN  /\ \A i \in 1..Len(R) : score[i] > 0
                /\ \A i, j \in 1..Len(R) :
                      i < j =>
                          /\ score[i] >= score[j]
                          /\ score[i] = score[j] => PlaceGiven(R[i]) < PlaceGiven(R[j])

\* a collection given in another order than that of the scores comes back
\* with a higher score before a lower one, two records of equal score and
\* different value in the order given, and a record scoring 0 or less left
\* out
C14_Witness ==
    /\ matchTerm # <<>>
    /\ Len(matchReturned) >= 1
    /\ LET R == matchReturned[1]
       IN  /\ Len(R) >= 3
           /\ \E i \in 1..(Len(R) - 1) :
                 /\ ScoreOf(R[i]) > ScoreOf(R[i + 1])
                 /\ PlaceGiven(R[i]) > PlaceGiven(R[i + 1])
           /\ \E i \in 1..(Len(R) - 1) :
                 /\ ScoreOf(R[i]) = ScoreOf(R[i + 1])
                 /\ FoldedValue(R[i]) # FoldedValue(R[i + 1])
           /\ \E k \in 1..Len(matchGiven) : ScoreOf(matchGiven[k]) <= 0

\* The statement of C15: for a term that is not empty, a record whose field
\* value is the term but for its case scores at least as high as every
\* record whose value differs from the term, and is returned first.
C15_AsStated ==
    (matchTerm # <<>> /\ Len(matchReturned) >= 1) =>
        \A i \in 1..Len(matchGiven) :
            FoldedValue(matchGiven[i]) = toLowerCase(matchTerm) =>
                /\ \A j \in 1..Len(matchGiven) :
                      FoldedValue(matchGiven[j]) # toLowerCase(matchTerm)
                          => ScoreOf(matchGiven[i]) >= ScoreOf(matchGiven[j])
                /\ matchReturned[1] # <<>>
                /\ FoldedValue(matchReturned[1][1]) = toLowerCase(matchTerm)

----------------------------------------------------------------------------
(* The validator, called on a field and a value *)

\* a call of validateSearchInput(validateField, validateValue)
CallValidate ==
    /\ Len(validateReturned) < 2
    /\ validateReturned' = Append(validateReturned,
                                  validateSearchInput(validateField, validateValue))
    /\ UNCHANGED <<validateField, validateValue, pageVars, sortVars, matchVars, evalVars, today>>

ValidateInit ==
    /\ EvalIdle
    /\ PageInit("primary")
    /\ SortIdle
    /\ MatchIdle
    /\ validateField \in AccountFields
    /\ validateValue \in ValidatePool
    /\ validateReturned = <<>>

ValidateNext == CallValidate

SpecValidate == ValidateInit /\ [][ValidateNext]_vars

----------------------------------------------------------------------------
(* Properties of the validator, under SpecValidate *)

\* the text holds a letter
HasLetter(value) == \E i \in 1..Len(value) : IsLetter(value[i])

\* the text without white space, hyphens and parentheses
Unformatted(value) == SelectSeq(value, LAMBDA c : c \notin {" ", "-", "(", ")"})

\* C16: validateSearchInput returns valid = false in two cases and in no
\* other: the field is accountNumber and the value holds a letter, or the
\* field is phoneNumber and the value, less white space, hyphens and
\* parentheses, holds a letter.  The empty string is valid for every field
\* and every string for email; 'abc123' is rejected and '12345678'
\* accepted as account number, '(555) abc-4567' rejected and
\* '(555) 123-4567' accepted as phone number.
C16_ValidatorCases ==
    \A n \in 1..Len(validateReturned) :
        LET result == validateReturned[n]
        IN  /\ result.valid
                <=> ~ \/ validateField = "accountNumber" /\ HasLetter(validateValue)
                      \/ validateField = "phoneNumber" /\ HasLetter(Unformatted(validateValue))
            /\ validateValue = <<>> => result.valid
            /\ validateField = "email" => result.valid
            /\ (validateField = "accountNumber" /\ validateValue = <<"a","b","c","1","2","3">>)
                  => ~result.valid
            /\ (validateField = "accountNumber"
                    /\ validateValue = <<"1","2","3","4","5","6","7","8">>)
                  => result.valid
            /\ (validateField = "phoneNumber"
                    /\ validateValue = <<"(","5","5","5",")"," ","a","b","c","-","4","5","6","7">>)
                  => ~result.valid
            /\ (validateField = "phoneNumber"
                    /\ validateValue = <<"(","5","5","5",")"," ","1","2","3","-","4","5","6","7">>)
                  => result.valid

\* the phone number '(555) abc-4567' has been rejected
C16_Witness ==
    /\ validateField = "phoneNumber"
    /\ validateValue = <<"(","5","5","5",")"," ","a","b","c","-","4","5","6","7">>
    /\ Len(validateReturned) >= 1
    /\ ~validateReturned[1].valid
    /\ validateReturned[1].error = "Phone number cannot contain letters"

\* the text is an unsigned decimal number: digits, then at most one point
\* followed by digits
IsUnsignedDecimal(value) ==
    \E k \in 1..Len(value) :
        /\ \A i \in 1..k : IsDigit(value[i])
        /\ \/ k = Len(value)
           \/ /\ k + 1 < Len(value)
              /\ value[k + 1] = "."
              /\ \A i \in (k + 2)..Len(value) : IsDigit(value[i])

\* The statement of C17: the validator answers a balance value that is not
\* empty and not an unsigned decimal number with valid = false and the
\* error "Balance must be a valid number.", and no such value is an operand
\* of a balance condition on either page.
C17_AsStated ==
    /\ \A n \in 1..Len(validateReturned) :
          (/\ validateField = "balance"
           /\ validateValue # <<>>
           /\ ~IsUnsignedDecimal(validateValue)) =>
              /\ ~validateReturned[n].valid
              /\ validateReturned[n].error = "Balance must be a valid number."
    /\ \A k \in 1..Len(advancedFilters) :
          advancedFilters[k].field = "balance" =>
              \A i \in 1..Len(advancedFilters[k].values) :
                  IsUnsignedDecimal(advancedFilters[k].values[i])

----------------------------------------------------------------------------
(* Editing the filter chain on the primary page *)

MaxConditions == 2

\* setFilterErrors(prev => ({ ...prev, [id]: message }))
setFilterError(errors, id, message) ==
    [x \in DOMAIN errors \cup {id} |-> IF x = id THEN message ELSE errors[x]]

\* setFilterErrors(prev => { const e = { ...prev }; delete e[id]; return e })
deleteFilterError(errors, id) ==
    [x \in DOMAIN errors \ {id} |-> errors[x]]

\* updateAdvancedFilter(id, updates) on the chain filters
updateAdvancedFilter(filters, id, updates) ==
    [i \in 1..Len(filters) |->
        IF filters[i].id = id
        THEN [k \in DOMAIN filters[i] |->
                 IF k \in DOMAIN updates THEN updates[k] ELSE filters[i][k]]
        ELSE filters[i]]

\* Date.now().toString(): an id no condition and no error has yet
freshId ==
    LET used == {advancedFilters[i].id : i \in 1..Len(advancedFilters)}
                \cup {executedAdvancedFilters[i].id : i \in 1..Len(executedAdvancedFilters)}
                \cup DOMAIN filterErrors
    IN  CHOOSE n \in used : \A m \in used : m <= n

\* the advanced-filter check box: setShowAdvancedFilters(e.target.checked)
Primary_setShowAdvancedFilters(checked) ==
    /\ page = "primary"
    /\ showFilterPanel
    /\ checked # showAdvancedFilters
    /\ showAdvancedFilters' = checked
    /\ UNCHANGED <<page, searchFilters, executedSearchFilters, sortBy, executedSortBy,
                   validationError, advancedFilters, executedAdvancedFilters,
                   showFilterPanel, filterErrors, utilVars>>

\* PrimarySearchPage.addAdvancedFilter (Add Condition)
Primary_addAdvancedFilter ==
    /\ page = "primary"
    /\ showFilterPanel /\ showAdvancedFilters
    /\ Len(advancedFilters) < MaxConditions
    /\ freshId <= MaxConditions
    /\ LET lastFilter == advancedFilters[Len(advancedFilters)]
       IN  IF /\ Len(advancedFilters) > 0
              /\ lastFilter.field = "dateAdded"
              /\ lastFilter.startDate = <<>> /\ lastFilter.endDate = <<>>
           THEN /\ filterErrors' = setFilterError(filterErrors, lastFilter.id,
                       "Date filters must have at least a start date or end date. Please add a date before adding another condition.")
                /\ UNCHANGED advancedFilters
           ELSE IF /\ Len(advancedFilters) > 0
                   /\ lastFilter.field # "dateAdded"
                   /\ lastFilter.values = <<>>
           THEN /\ filterErrors' = setFilterError(filterErrors, lastFilter.id,
                       "Filters must have at least one value. Please add a value before adding another condition.")
                /\ UNCHANGED advancedFilters
           ELSE /\ filterErrors' = IF Len(advancedFilters) > 0
                                   THEN deleteFilterError(filterErrors, lastFilter.id)
                                   ELSE filterErrors
                /\ advancedFilters' =
                       Append(advancedFilters,
                              AdvancedFilter(freshId + 1, "And", "accountNumber", "is",
                                             <<>>, <<>>, <<>>, <<>>))
    /\ UNCHANGED <<page, searchFilters, executedSearchFilters, sortBy, executedSortBy,
                   validationError, executedAdvancedFilters, showFilterPanel,
                   showAdvancedFilters, utilVars>>

\* the field selector of condition id: onChange
Primary_fieldOnChange(id, newField) ==
    /\ page = "primary"
    /\ showFilterPanel /\ showAdvancedFilters
    /\ \E i \in 1..Len(advancedFilters) : advancedFilters[i].id = id
    /\ filterErrors' = deleteFilterError(filterErrors, id)
    /\ advancedFilters' =
           updateAdvancedFilter(advancedFilters, id,
                                [field |-> newField,
                                 operator |-> getOperatorsForField(newField)[1],
                                 values |-> <<>>, inputValue |-> <<>>,
                                 startDate |-> <<>>, endDate |-> <<>>])
    /\ UNCHANGED <<page, searchFilters, executedSearchFilters, sortBy, executedSortBy,
                   validationError, executedAdvancedFilters, showFilterPanel,
                   showAdvancedFilters, utilVars>>

\* Variant: the start date is not compared with the end date.
Primary_startDateOnChange_noRangeCheck(id, selectedDate) ==
    /\ page = "primary"
    /\ showFilterPanel /\ showAdvancedFilters
    /\ \E i \in 1..Len(advancedFilters) :
          /\ advancedFilters[i].id = id
          /\ advancedFilters[i].field = "dateAdded"
          /\ IF StrLess(today, selectedDate)
             THEN /\ filterErrors' = setFilterError(filterErrors, id, "Date cannot be in the future")
                  /\ UNCHANGED advancedFilters
             ELSE /\ filterErrors' = deleteFilterError(filterErrors, id)
                  /\ advancedFilters' =
                         updateAdvancedFilter(advancedFilters, id, [startDate |-> selectedDate])
    /\ UNCHANGED <<page, searchFilters, executedSearchFilters, sortBy, executedSortBy,
                   validationError, executedAdvancedFilters, showFilterPanel,
                   showAdvancedFilters, utilVars>>

\* the Start Date input of condition id: onChange
Primary_startDateOnChange(id, selectedDate) ==
    /\ page = "primary"
    /\ showFilterPanel /\ showAdvancedFilters
    /\ \E i \in 1..Len(advancedFilters) :
          /\ advancedFilters[i].id = id
          /\ advancedFilters[i].field = "dateAdded"
          /\ IF StrLess(today, selectedDate)
             THEN /\ filterErrors' = setFilterError(filterErrors, id, "Date cannot be in the future")
                  /\ UNCHANGED advancedFilters
             ELSE IF /\ advancedFilters[i].endDate # <<>>
                     /\ StrLess(advancedFilters[i].endDate, selectedDate)
             THEN /\ filterErrors' = setFilterError(filterErrors, id,
                                                    "Start date cannot be after end date")
                  /\ UNCHANGED advancedFilters
             ELSE /\ filterErrors' = deleteFilterError(filterErrors, id)
                  /\ advancedFilters' =
                         updateAdvancedFilter(advancedFilters, id, [startDate |-> selectedDate])
    /\ UNCHANGED <<page, searchFilters, executedSearchFilters, sortBy, executedSortBy,
                   validationError, executedAdvancedFilters, showFilterPanel,
                   showAdvancedFilters, utilVars>>

\* the End Date input of condition id: onChange
Primary_endDateOnChange(id, selectedDate) ==
    /\ page = "primary"
    /\ showFilterPanel /\ showAdvancedFilters
    /\ \E i \in 1..Len(advancedFilters) :
          /\ advancedFilters[i].id = id
          /\ advancedFilters[i].field = "dateAdded"
          /\ IF StrLess(today, selectedDate)
             THEN /\ filterErrors' = setFilterError(filterErrors, id, "Date cannot be in the future")
                  /\ UNCHANGED advancedFilters
             ELSE IF /\ advancedFilters[i].startDate # <<>>
                     /\ StrLess(selectedDate, advancedFilters[i].startDate)
             THEN /\ filterErrors' = setFilterError(filterErrors, id,
                                                    "End date cannot be before start date")
                  /\ UNCHANGED advancedFilters
             ELSE /\ filterErrors' = deleteFilterError(filterErrors, id)
                  /\ advancedFilters' =
                         updateAdvancedFilter(advancedFilters, id, [endDate |-> selectedDate])
    /\ UNCHANGED <<page, searchFilters, executedSearchFilters, sortBy, executedSortBy,
                   validationError, executedAdvancedFilters, showFilterPanel,
                   showAdvancedFilters, utilVars>>

\* midnight (UTC): new Date().toISOString().split('T')[0] moves to the next date
Midnight ==
    /\ \E n \in 1..(Len(ClockDates) - 1) :
          /\ today = ClockDates[n]
          /\ today' = ClockDates[n + 1]
    /\ UNCHANGED <<pageVars, sortVars, matchVars, validateVars, evalVars>>

\* the dates entered in a date input; the empty string clears the input
EntryDates ==
    {<<>>, <<"2","0","2","1","-","1","2","-","0","1">>, <<"2","0","2","4","-","0","3","-","0","1">>, <<"2","0","2","5","-","0","1","-","0","1">>}

\* the fields chosen in a field selector
EntryFields == {"accountNumber", "balance", "dateAdded"}

ConditionIds == 1..(MaxConditions + 1)

DatesInit ==
    /\ EvalIdle
    /\ PageInit("primary")
    /\ SortIdle
    /\ MatchIdle
    /\ ValidateIdle

DatesNext ==
    \/ Primary_openFilterPanel
    \/ \E checked \in BOOLEAN : Primary_setShowAdvancedFilters(checked)
    \/ Primary_addAdvancedFilter
    \/ \E id \in ConditionIds : \E newField \in EntryFields : Primary_fieldOnChange(id, newField)
    \/ \E id \in ConditionIds : \E selectedDate \in EntryDates :
          Primary_startDateOnChange(id, selectedDate)
    \/ \E id \in ConditionIds : \E selectedDate \in EntryDates :
          Primary_endDateOnChange(id, selectedDate)
    \/ Midnight

SpecDates == DatesInit /\ [][DatesNext]_vars

----------------------------------------------------------------------------
(* Properties of the date inputs, under SpecDates *)

\* the date is later than the date the clock shows
InFuture(date) == date # <<>> /\ StrLess(today, date)

\* the condition with this id, in the chain filters
ConditionOf(filters, id) ==
    filters[CHOOSE i \in 1..Len(filters) : filters[i].id = id]

\* C18: after any sequence of start-date entries, end-date entries and field
\* changes on the primary page's chain, no date condition holds a bound later
\* than the current date and none with both bounds set has its start later
\* than its end; an entry that would break either rule is rejected, whichever
\* bound was entered first: the condition's bounds stay as they were and an
\* error is recorded for that condition.
C18_DateBoundsKept ==
    /\ [](\A i \in 1..Len(advancedFilters) :
             LET filter == advancedFilters[i]
             IN  filter.field = "dateAdded" =>
                    /\ ~InFuture(filter.startDate)
                    /\ ~InFuture(filter.endDate)
                    /\ (filter.startDate # <<>> /\ filter.endDate # <<>>)
                          => StrLeq(filter.startDate, filter.endDate))
    /\ [][\A id \in ConditionIds : \A selectedDate \in EntryDates :
             LET filter == ConditionOf(advancedFilters, id)
                 after == ConditionOf(advancedFilters', id)
             IN  /\ (/\ Primary_startDateOnChange(id, selectedDate)
                     /\ \/ InFuture(selectedDate)
                        \/ filter.endDate # <<>> /\ StrLess(filter.endDate, selectedDate))
                       => /\ after.startDate = filter.startDate
                          /\ after.endDate = filter.endDate
                          /\ id \in DOMAIN filterErrors'
                          /\ filterErrors'[id] \in {"Date cannot be in the future",
                                                    "Start date cannot be after end date"}
                 /\ (/\ Primary_endDateOnChange(id, selectedDate)
                     /\ \/ InFuture(selectedDate)
                        \/ filter.startDate # <<>> /\ StrLess(selectedDate, filter.startDate))
                       => /\ after.startDate = filter.startDate
                          /\ after.endDate = filter.endDate
                          /\ id \in DOMAIN filterErrors'
                          /\ filterErrors'[id] \in {"Date cannot be in the future",
                                                    "End date cannot be before start date"}]_vars

\* a condition holds a start and an end date, and a start date later than
\* its end date has been turned down
C18_Witness ==
    \E i \in 1..Len(advancedFilters) :
        /\ advancedFilters[i].field = "dateAdded"
        /\ advancedFilters[i].startDate = <<"2","0","2","1","-","1","2","-","0","1">>
        /\ advancedFilters[i].endDate = <<"2","0","2","1","-","1","2","-","0","1">>
        /\ advancedFilters[i].id \in DOMAIN filterErrors
        /\ filterErrors[advancedFilters[i].id] = "Start date cannot be after end date"

----------------------------------------------------------------------------
(* Properties of the suggestions, under SpecQuery *)

\* an executed simple-search term is not blank
ExecutedTermGiven ==
    \E k \in 1..Len(SEARCHABLE_FIELDS) :
        \E i \in 1..Len(executedSearchFilters[SEARCHABLE_FIELDS[k]]) :
            ~IsSpace(executedSearchFilters[SEARCHABLE_FIELDS[k]][i])

\* an operand of an executed condition not on dateAdded is not blank
ExecutedOperandGiven ==
    \E k \in 1..Len(executedAdvancedFilters) :
        /\ executedAdvancedFilters[k].field # "dateAdded"
        /\ \E n \in 1..Len(executedAdvancedFilters[k].values) :
              \E i \in 1..Len(executedAdvancedFilters[k].values[n]) :
                  ~IsSpace(executedAdvancedFilters[k].values[n][i])

----------------------------------------------------------------------------
(* Editing the draft inputs of a page *)

\* the chain is on screen: in the filter panel with the advanced filters
\* switched on (primary page), always (secondary page)
ChainShown == page = "primary" => (showFilterPanel /\ showAdvancedFilters)

\* updateSearchFilter(field, value): typing in a simple-search box
updateSearchFilter(field, value) ==
    /\ searchFilters[field] # value
    /\ searchFilters' = [searchFilters EXCEPT ![field] = value]
    /\ validationError' = null
    /\ UNCHANGED <<page, executedSearchFilters, sortBy, executedSortBy, advancedFilters,
                   executedAdvancedFilters, showFilterPanel, showAdvancedFilters,
                   filterErrors, utilVars>>

\* toggleCaseSensitive(field)
toggleCaseSensitive(field) ==
    /\ searchFilters' =
           [searchFilters EXCEPT !.caseSensitive[field] = ~searchFilters.caseSensitive[field]]
    /\ UNCHANGED <<page, executedSearchFilters, sortBy, executedSortBy, validationError,
                   advancedFilters, executedAdvancedFilters, showFilterPanel,
                   showAdvancedFilters, filterErrors, utilVars>>

\* PrimarySearchPage.toggleStatusFilter(status); the check boxes are in the
\* filter panel
Primary_toggleStatusFilter(status) ==
    /\ page = "primary"
    /\ showFilterPanel
    /\ searchFilters' =
           [searchFilters EXCEPT !.status = IF status \in searchFilters.status
                                            THEN searchFilters.status \ {status}
                                            ELSE searchFilters.status \cup {status}]
    /\ UNCHANGED <<page, executedSearchFilters, sortBy, executedSortBy, validationError,
                   advancedFilters, executedAdvancedFilters, showFilterPanel,
                   showAdvancedFilters, filterErrors, utilVars>>

\* the Sort By selector: setSortBy(e.target.value); on the primary page it
\* is in the filter panel
setSortBy(field) ==
    /\ page = "primary" => showFilterPanel
    /\ sortBy # field
    /\ sortBy' = field
    /\ UNCHANGED <<page, searchFilters, executedSearchFilters, executedSortBy,
                   validationError, advancedFilters, executedAdvancedFilters,
                   showFilterPanel, showAdvancedFilters, filterErrors, utilVars>>

\* the value input of condition id: onChange
inputValueOnChange(id, value) ==
    /\ ChainShown
    /\ \E i \in 1..Len(advancedFilters) :
          /\ advancedFilters[i].id = id
          /\ advancedFilters[i].field # "dateAdded"
          /\ advancedFilters[i].inputValue # value
    /\ advancedFilters' = updateAdvancedFilter(advancedFilters, id, [inputValue |-> value])
    /\ UNCHANGED <<page, searchFilters, executedSearchFilters, sortBy, executedSortBy,
                   validationError, executedAdvancedFilters, showFilterPanel,
                   showAdvancedFilters, filterErrors, utilVars>>

\* /^\d+(\.\d+)?$/.test(value)
balancePattern(value) ==
    LET points == {i \in 1..Len(value) : value[i] = "."}
    IN  /\ value # <<>>
        /\ \A i \in 1..Len(value) : IsDigit(value[i]) \/ value[i] = "."
        /\ \/ points = {}
           \/ \E i \in points : points = {i} /\ 1 < i /\ i < Len(value)

\* the message addValueToFilter of the primary page records for a value,
\* "undefined" when the value passes
Primary_valueError(field, value) ==
    IF field = "balance" /\ ~balancePattern(value)
    THEN "Balance must be a valid number"
    ELSE IF /\ field = "phoneNumber"
            /\ ~ /\ removeFormatting(value) # <<>>
                 /\ \A i \in 1..Len(removeFormatting(value)) : IsDigit(removeFormatting(value)[i])
    THEN "Phone number cannot contain letters"
    ELSE validateSearchInput(field, value).error

\* PrimarySearchPage.addValueToFilter(filterId)
Primary_addValueToFilter(filterId) ==
    /\ page = "primary"
    /\ ChainShown
    /\ \E i \in 1..Len(advancedFilters) :
          LET filter == advancedFilters[i]
              value == trim(filter.inputValue)
          IN  /\ filter.id = filterId
              /\ filter.field # "dateAdded"
              /\ value # <<>>
              /\ Len(filter.values) < MaxValues
              /\ IF Primary_valueError(filter.field, value) # "undefined"
                 THEN /\ filterErrors' = setFilterError(filterErrors, filterId,
                                                        Primary_valueError(filter.field, value))
                      /\ UNCHANGED advancedFilters
                 ELSE /\ filterErrors' = deleteFilterError(filterErrors, filterId)
                      /\ advancedFilters' =
                             updateAdvancedFilter(advancedFilters, filterId,
                                                  [values |-> Append(filter.values, value),
                                                   inputValue |-> <<>>])
    /\ UNCHANGED <<page, searchFilters, executedSearchFilters, sortBy, executedSortBy,
                   validationError, executedAdvancedFilters, showFilterPanel,
                   showAdvancedFilters, utilVars>>

\* SecondarySearchPage.addValueToFilter(filterId)
Secondary_addValueToFilter(filterId) ==
    /\ page = "secondary"
    /\ \E i \in 1..Len(advancedFilters) :
          LET filter == advancedFilters[i]
          IN  /\ filter.id = filterId
              /\ trim(filter.inputValue) # <<>>
              /\ Len(filter.values) < MaxValues
              /\ filterErrors' = deleteFilterError(filterErrors, filterId)
              /\ advancedFilters' =
                     updateAdvancedFilter(advancedFilters, filterId,
                                          [values |-> Append(filter.values, trim(filter.inputValue)),
                                           inputValue |-> <<>>])
    /\ UNCHANGED <<page, searchFilters, executedSearchFilters, sortBy, executedSortBy,
                   validationError, executedAdvancedFilters, showFilterPanel,
                   showAdvancedFilters, utilVars>>

\* SecondarySearchPage, the field selector of condition id: onChange
Secondary_fieldOnChange(id, newField) ==
    /\ page = "secondary"
    /\ \E i \in 1..Len(advancedFilters) :
          advancedFilters[i].id = id /\ advancedFilters[i].field # newField
    /\ filterErrors' = deleteFilterError(filterErrors, id)
    /\ advancedFilters' =
           updateAdvancedFilter(advancedFilters, id,
                                [field |-> newField,
                                 operator |-> getOperatorsForField(newField)[1],
                                 values |-> <<>>, inputValue |-> <<>>])
    /\ UNCHANGED <<page, searchFilters, executedSearchFilters, sortBy, executedSortBy,
                   validationError, executedAdvancedFilters, showFilterPanel,
                   showAdvancedFilters, utilVars>>

\* the texts typed in the company-name search box
DraftTerms == {<<>>, <<"A","c","n","e">>}

\* the sort fields chosen
DraftSorts == {"accountNumber", "balance"}

\* the texts typed in the value input of a condition
DraftOperands == {<<"a","b","c">>, <<"9">>}

\* an edit of the draft inputs
DraftEdit ==
    \/ \E value \in DraftTerms : updateSearchFilter("companyName", value)
    \/ toggleCaseSensitive("companyName")
    \/ Primary_toggleStatusFilter("Open")
    \/ \E field \in DraftSorts : setSortBy(field)
    \/ \E value \in DraftOperands : inputValueOnChange(1, value)
    \/ Primary_addValueToFilter(1)
    \/ Secondary_addValueToFilter(1)
    \/ Primary_fieldOnChange(1, "balance")
    \/ Secondary_fieldOnChange(1, "balance")

\* an explicit trigger, and the opening of the panel the triggers are in
DraftTrigger ==
    \/ Primary_openFilterPanel
    \/ \E checked \in BOOLEAN : Primary_setShowAdvancedFilters(checked)
    \/ Primary_handleSearch
    \/ Primary_handleApplyFilters
    \/ Secondary_handleSearch
    \/ Secondary_handleApplyFilters

DraftInit ==
    /\ EvalIdle
    /\ \E p \in Pages : PageInit(p)
    /\ SortIdle
    /\ MatchIdle
    /\ ValidateIdle

DraftNext == DraftEdit \/ DraftTrigger

SpecDraft == DraftInit /\ [][DraftNext]_vars

----------------------------------------------------------------------------
(* Properties of the draft inputs, under SpecDraft *)

\* The statement of C19: on both pages an edit of the draft inputs (typing
\* in a simple-search box, toggling a case-sensitivity flag or a status
\* check box, changing the sort field, editing the chain) leaves the
\* executed filters, the sort key applied to the results and the result
\* list as they were.
C19_AsStated ==
    [][DraftEdit =>
          /\ UNCHANGED <<executedSearchFilters, executedAdvancedFilters, executedSortBy>>
          /\ resultList(page', executedAdvancedFilters', executedSearchFilters', sortBy',
                        executedSortBy') = filteredAccounts]_vars

----------------------------------------------------------------------------
(* Building the chain: conditions added and removed, operators chosen,     *)
(* values removed                                                          *)

\* Variant: a condition is added whatever the last condition holds.
Secondary_addAdvancedFilter_unchecked ==
    /\ page = "secondary"
    /\ Len(advancedFilters) < MaxConditions
    /\ freshId <= MaxConditions
    /\ filterErrors' = deleteFilterError(filterErrors, advancedFilters[Len(advancedFilters)].id)
    /\ advancedFilters' =
           Append(advancedFilters,
                  AdvancedFilter(freshId + 1, "And", "accountNumber", "is",
                                 <<>>, <<>>, <<>>, <<>>))
    /\ UNCHANGED <<page, searchFilters, executedSearchFilters, sortBy, executedSortBy,
                   validationError, executedAdvancedFilters, showFilterPanel,
                   showAdvancedFilters, utilVars>>

\* SecondarySearchPage.addAdvancedFilter (Add Condition)
Secondary_addAdvancedFilter ==
    /\ page = "secondary"
    /\ Len(advancedFilters) < MaxConditions
    /\ freshId <= MaxConditions
    /\ LET lastFilter == advancedFilters[Len(advancedFilters)]
       IN  IF /\ Len(advancedFilters) > 0
              /\ lastFilter.field = "dateAdded"
              /\ lastFilter.values = <<>>
           THEN /\ filterErrors' = setFilterError(filterErrors, lastFilter.id,
                       "Date filters must have at least one date value. Please add a date before adding another condition.")
                /\ UNCHANGED advancedFilters
           ELSE IF /\ Len(advancedFilters) > 0
                   /\ lastFilter.field # "dateAdded"
                   /\ lastFilter.values = <<>>
           THEN /\ filterErrors' = setFilterError(filterErrors, lastFilter.id,
                       "Filters must have at least one value. Please add a value before adding another condition.")
                /\ UNCHANGED advancedFilters
           ELSE /\ filterErrors' = IF Len(advancedFilters) > 0
                                   THEN deleteFilterError(filterErrors, lastFilter.id)
                                   ELSE filterErrors
                /\ advancedFilters' =
                       Append(advancedFilters,
                              AdvancedFilter(freshId + 1, "And", "accountNumber", "is",
                                             <<>>, <<>>, <<>>, <<>>))
    /\ UNCHANGED <<page, searchFilters, executedSearchFilters, sortBy, executedSortBy,
                   validationError, executedAdvancedFilters, showFilterPanel,
                   showAdvancedFilters, utilVars>>

\* Variant: the last condition can be removed too.
removeAdvancedFilter_any(id) ==
    /\ ChainShown
    /\ \E i \in 1..Len(advancedFilters) : advancedFilters[i].id = id
    /\ advancedFilters' = SelectSeq(advancedFilters, LAMBDA f : f.id # id)
    /\ UNCHANGED <<page, searchFilters, executedSearchFilters, sortBy, executedSortBy,
                   validationError, executedAdvancedFilters, showFilterPanel,
                   showAdvancedFilters, filterErrors, utilVars>>

\* removeAdvancedFilter(id) (Remove Filter), the same on both pages
removeAdvancedFilter(id) ==
    /\ ChainShown
    /\ \E i \in 1..Len(advancedFilters) : advancedFilters[i].id = id
    /\ advancedFilters' = IF Len(advancedFilters) > 1
                          THEN SelectSeq(advancedFilters, LAMBDA f : f.id # id)
                          ELSE advancedFilters
    /\ UNCHANGED <<page, searchFilters, executedSearchFilters, sortBy, executedSortBy,
                   validationError, executedAdvancedFilters, showFilterPanel,
                   showAdvancedFilters, filterErrors, utilVars>>

\* Variant: the operator chosen is stored as it comes.
operatorOnChange_unchecked(id, newOperator) ==
    /\ ChainShown
    /\ \E i \in 1..Len(advancedFilters) :
          /\ advancedFilters[i].id = id
          /\ page = "primary" => advancedFilters[i].field # "dateAdded"
    /\ advancedFilters' = updateAdvancedFilter(advancedFilters, id, [operator |-> newOperator])
    /\ UNCHANGED <<page, searchFilters, executedSearchFilters, sortBy, executedSortBy,
                   validationError, executedAdvancedFilters, showFilterPanel,
                   showAdvancedFilters, filterErrors, utilVars>>

\* the operator selector of condition id: onChange, the same on both pages;
\* the primary page shows no operator selector for dateAdded
operatorOnChange(id, newOperator) ==
    /\ ChainShown
    /\ \E i \in 1..Len(advancedFilters) :
          LET validOperators == getOperatorsForField(advancedFilters[i].field)
          IN  /\ advancedFilters[i].id = id
              /\ page = "primary" => advancedFilters[i].field # "dateAdded"
              /\ advancedFilters' =
                     updateAdvancedFilter(advancedFilters, id,
                         [operator |-> IF \E k \in 1..Len(validOperators) :
                                               validOperators[k] = newOperator
                                       THEN newOperator ELSE validOperators[1]])
    /\ UNCHANGED <<page, searchFilters, executedSearchFilters, sortBy, executedSortBy,
                   validationError, executedAdvancedFilters, showFilterPanel,
                   showAdvancedFilters, filterErrors, utilVars>>

\* removeValueFromFilter(filterId, valueIndex), the same on both pages;
\* valueIndex counts from 0
removeValueFromFilter(filterId, valueIndex) ==
    /\ ChainShown
    /\ \E i \in 1..Len(advancedFilters) :
          LET filter == advancedFilters[i]
              kept == {k \in 1..Len(filter.values) : k - 1 # valueIndex}
              newValues == [n \in 1..Cardinality(kept) |->
                               filter.values[CHOOSE k \in kept :
                                                Cardinality({j \in kept : j <= k}) = n]]
          IN  /\ filter.id = filterId
              /\ valueIndex < Len(filter.values)
              /\ advancedFilters' =
                     updateAdvancedFilter(advancedFilters, filterId, [values |-> newValues])
    /\ UNCHANGED <<page, searchFilters, executedSearchFilters, sortBy, executedSortBy,
                   validationError, executedAdvancedFilters, showFilterPanel,
                   showAdvancedFilters, filterErrors, utilVars>>

\* the fields, operators, texts and dates chosen while a chain is built
ChainFields == {"accountNumber", "balance", "dateAdded"}

ChainOperators == {">", "contains"}

ChainOperands == {<<"9">>}

ChainDates == {<<"2","0","2","1","-","1","2","-","0","1">>}

ChainInit ==
    /\ EvalIdle
    /\ \E p \in Pages : PageInit(p)
    /\ SortIdle
    /\ MatchIdle
    /\ ValidateIdle

ChainNext ==
    \/ Primary_openFilterPanel
    \/ \E checked \in BOOLEAN : Primary_setShowAdvancedFilters(checked)
    \/ Primary_addAdvancedFilter
    \/ Secondary_addAdvancedFilter
    \/ \E id \in ConditionIds : removeAdvancedFilter(id)
    \/ \E id \in ConditionIds : \E newField \in ChainFields : Primary_fieldOnChange(id, newField)
    \/ \E id \in ConditionIds : \E newField \in ChainFields : Secondary_fieldOnChange(id, newField)
    \/ \E id \in ConditionIds : \E newOperator \in ChainOperators :
          operatorOnChange(id, newOperator)
    \/ \E id \in ConditionIds : \E value \in ChainOperands : inputValueOnChange(id, value)
    \/ \E id \in ConditionIds : Primary_addValueToFilter(id)
    \/ \E id \in ConditionIds : Secondary_addValueToFilter(id)
    \/ \E id \in ConditionIds : \E valueIndex \in 0..(MaxValues - 1) :
          removeValueFromFilter(id, valueIndex)
    \/ \E id \in ConditionIds : \E selectedDate \in ChainDates :
          Primary_startDateOnChange(id, selectedDate)
    \/ \E id \in ConditionIds : \E selectedDate \in ChainDates :
          Primary_endDateOnChange(id, selectedDate)

SpecChain == ChainInit /\ [][ChainNext]_vars

----------------------------------------------------------------------------
(* Properties of chain building, under SpecChain                           *)

\* a condition with nothing to compare against, as Add Condition of page p sees it
Vacuous(p, filter) ==
    IF p = "primary" /\ filter.field = "dateAdded"
    THEN filter.startDate = <<>> /\ filter.endDate = <<>>
    ELSE filter.values = <<>>

LastCondition == advancedFilters[Len(advancedFilters)]

\* C21: Add Condition is refused while the last condition is vacuous (no
\* operand value; for a date condition of the primary page neither bound):
\* the chain stays as it is and an error is recorded under the last
\* condition.  Otherwise exactly one condition (And, accountNumber, is, no
\* values) is appended and the error of the last condition is cleared.
C21_AddRefusedWhileVacuous ==
    [][(Primary_addAdvancedFilter \/ Secondary_addAdvancedFilter) =>
          IF Vacuous(page, LastCondition)
          THEN /\ advancedFilters' = advancedFilters
               /\ LastCondition.id \in DOMAIN filterErrors'
          ELSE /\ Len(advancedFilters') = Len(advancedFilters) + 1
               /\ SubSeq(advancedFilters', 1, Len(advancedFilters)) = advancedFilters
               /\ LET added == advancedFilters'[Len(advancedFilters')]
                  IN  /\ added.logic = "And"
                      /\ added.field = "accountNumber"
                      /\ added.operator = "is"
                      /\ added.values = <<>>
                      /\ \A i \in 1..Len(advancedFilters) : advancedFilters[i].id # added.id
               /\ LastCondition.id \notin DOMAIN filterErrors']_vars

\* a condition that was appended stands alone and an Add Condition on it was
\* refused
C21_Witness ==
    /\ Len(advancedFilters) = 1
    /\ advancedFilters[1].id = 2
    /\ Vacuous(page, advancedFilters[1])
    /\ 2 \in DOMAIN filterErrors

----------------------------------------------------------------------------
(* Properties of Apply Filters, under SpecQuery                            *)

\* the draft chain is the one Apply Filters is about to execute
ChainActive == page = "primary" => showAdvancedFilters

HasVacuous(p, chain) == \E i \in 1..Len(chain) : Vacuous(p, chain[i])

ErrorRaised(error, errors) == error # null \/ DOMAIN errors # {}

\* C22: when Apply Filters is invoked while a condition of the active chain
\* has no operand value (for a date condition, no bound either), an error is
\* raised and the chain does not become the executed chain.
C22_AsStated ==
    [][((Primary_handleApplyFilters \/ Secondary_handleApplyFilters)
          /\ ChainActive /\ HasVacuous(page, advancedFilters)) =>
             /\ ErrorRaised(validationError', filterErrors')
             /\ UNCHANGED executedAdvancedFilters]_vars

----------------------------------------------------------------------------
(* Properties of the simple search, under SpecQuery                        *)

HasPrefix(text, term) ==
    Len(term) <= Len(text) /\ SubSeq(text, 1, Len(term)) = term

HasInfix(text, term) ==
    \E i \in 1..(Len(text) - Len(term) + 1) : SubSeq(text, i, i + Len(term) - 1) = term

\* what the simple search of one field is to decide for a record
TermExpected(account, filters, field) ==
    LET term  == filters[field]
        value == StringOfField(account, field)
    IN  IF term = <<>> THEN TRUE
        ELSE IF filters.caseSensitive[field]
             THEN IF IsDigit(term[1]) \/ IsLetter(term[1])
                  THEN HasPrefix(value, term)
                  ELSE HasInfix(value, term)
        ELSE HasInfix(toLowerCase(value), toLowerCase(term))

\* C23: for every record and every simple-search field, with the
\* case-sensitivity flag on the record matches iff its value starts with the
\* term when the term starts with a digit or an ASCII letter, and iff its
\* value contains the term when it starts with another character; with the
\* flag off it matches iff the lower-cased value contains the lower-cased
\* term; an empty term matches every record.  The records listed are those
\* that match in every field.
C23_SimpleSearchMatching ==
    /\ \A k \in 1..Len(mockAccounts) : \A field \in SearchFields :
          matchesField(mockAccounts[k], executedSearchFilters, field)
             <=> TermExpected(mockAccounts[k], executedSearchFilters, field)
    /\ LET listed == filteredAccounts
       IN  \A n \in 1..Len(listed) : \A field \in SearchFields :
              TermExpected(listed[n], executedSearchFilters, field)

\* a case-sensitive letter-first term that a value contains without starting
\* with it has been executed, beside a term in another field
C23_Witness ==
    /\ executedSearchFilters.caseSensitive["companyName"]
    /\ executedSearchFilters.companyName = <<"C", "o", "r", "p">>
    /\ executedSearchFilters.phoneNumber # <<>>
    /\ \E k \in 1..Len(mockAccounts) :
          /\ HasInfix(mockAccounts[k].companyName, executedSearchFilters.companyName)
          /\ ~matchesField(mockAccounts[k], executedSearchFilters, "companyName")

----------------------------------------------------------------------------
(* Properties of the compound result, under SpecQuery                      *)

\* the chain with the conditions at positions a and b exchanged
Exchanged(chain, a, b) ==
    [i \in 1..Len(chain) |-> IF i = a THEN chain[b] ELSE IF i = b THEN chain[a] ELSE chain[i]]

\* positions a < b of a run joined only by And, both conditions carrying And
InAndRun(chain, a, b) ==
    /\ a < b
    /\ \A k \in a..b : chain[k].logic = "And"

\* C24: for every record and every chain, exchanging two conditions that
\* both carry And and lie inside a run joined only by And leaves the
\* compound result unchanged.
C24_AndCommutesInRun ==
    \A a, b \in 1..Len(executedAdvancedFilters) :
        InAndRun(executedAdvancedFilters, a, b) =>
            \A n \in 1..Len(mockAccounts) :
                compoundResult(page, mockAccounts[n],
                               Exchanged(executedAdvancedFilters, a, b))
                  = compoundResult(page, mockAccounts[n], executedAdvancedFilters)

\* an executed chain of three conditions with an Or in it and an And run
\* whose two conditions decide differently for some record
C24_Witness ==
    /\ Len(executedAdvancedFilters) = 3
    /\ \E k \in 1..3 : executedAdvancedFilters[k].logic = "Or"
    /\ \E a, b \in 1..3 :
          /\ InAndRun(executedAdvancedFilters, a, b)
          /\ \E n \in 1..Len(mockAccounts) :
                evaluateFilter(page, mockAccounts[n], executedAdvancedFilters[a])
                  # evaluateFilter(page, mockAccounts[n], executedAdvancedFilters[b])

----------------------------------------------------------------------------
(* The evaluator called on its own                                         *)

EvalFields == {"companyName", "balance", "dateAdded"}

\* every operator of the type, and one that is none of them
EvalOperators ==
    Range(TEXT_OPERATORS) \cup Range(NUMERIC_OPERATORS) \cup Range(DATE_OPERATORS)
        \cup {"between"}

EvalOperands == {<<"a","c","m","e">>, <<"1","0","0","0">>}

CallEvaluate ==
    /\ Len(evalReturned) < 1
    /\ evalReturned' = Append(evalReturned,
                              evaluateFilter(evalGiven.page, evalGiven.account,
                                             evalGiven.filter))
    /\ UNCHANGED <<evalGiven, pageVars, sortVars, matchVars, validateVars, today>>

EvalInit ==
    /\ PageInit("primary")
    /\ SortIdle
    /\ MatchIdle
    /\ ValidateIdle
    /\ evalGiven \in
          {[page |-> p, account |-> mockAccounts[n],
            filter |-> AdvancedFilter(1, "And", f, op, vs, <<>>, <<>>, <<>>)] :
              p \in Pages, n \in 1..Len(mockAccounts), f \in EvalFields,
              op \in EvalOperators, vs \in ValueLists(EvalOperands)}
    /\ evalReturned = <<>>

EvalNext == CallEvaluate

SpecEval == EvalInit /\ [][EvalNext]_vars

\* C25: for every record and every non-empty operand list on a non-date
\* field, a condition whose operator has no case in the evaluator matches
\* the record.
C25_UnknownOperatorMatches ==
    (/\ evalReturned # <<>>
     /\ evalGiven.filter.field # "dateAdded"
     /\ evalGiven.filter.values # <<>>
     /\ evalGiven.filter.operator \notin HandledOperators(evalGiven.page))
        => evalReturned[1] = TRUE

\* the evaluator has returned for an operator outside the type on operands
\* that an 'is' condition on the same record rejects
C25_Witness ==
    /\ evalReturned = <<TRUE>>
    /\ evalGiven.filter.field = "balance"
    /\ evalGiven.filter.operator = "between"
    /\ Len(evalGiven.filter.values) = MaxValues
    /\ ~evaluateFilter(evalGiven.page, evalGiven.account,
                       [evalGiven.filter EXCEPT !.operator = "is"])

----------------------------------------------------------------------------
(* Properties of the draft chain, under SpecChain                          *)

\* C26: the draft chain always holds at least one condition, and Remove
\* Filter removes the condition with the given id only when the chain has
\* more than one condition; otherwise it leaves the chain unchanged.
C26_ChainNeverEmpty ==
    /\ [](Len(advancedFilters) >= 1)
    /\ [][\A id \in ConditionIds :
            removeAdvancedFilter(id) =>
                IF Len(advancedFilters) > 1
                THEN /\ Len(advancedFilters') = Len(advancedFilters) - 1
                     /\ \A i \in 1..Len(advancedFilters') : advancedFilters'[i].id # id
                     /\ \A i \in 1..Len(advancedFilters) :
                           advancedFilters[i].id # id =>
                              \E j \in 1..Len(advancedFilters') :
                                 advancedFilters'[j] = advancedFilters[i]
                ELSE advancedFilters' = advancedFilters]_vars

\* the first condition has been removed and the one added after it remains
C26_Witness ==
    /\ Len(advancedFilters) = 1
    /\ advancedFilters[1].id # 1
    /\ ~Vacuous(page, advancedFilters[1])

----------------------------------------------------------------------------
(* Properties of what Apply Filters installs, under SpecQuery              *)

\* a check of the primary Apply Filters fails on the drafts
ApplyCheckFails ==
    \/ /\ showAdvancedFilters
       /\ \E i \in 1..Len(advancedFilters) :
             conditionValidationError(advancedFilters[i]) # "undefined"
    \/ ~validateSearchInput("accountNumber", searchFilters.accountNumber).valid
    \/ ~validateSearchInput("phoneNumber", searchFilters.phoneNumber).valid

\* C27: on the primary page, when any check fails during Apply Filters, a
\* validation error is set and the executed simple-search set, the executed
\* sort key and the executed chain all keep the values they had.
C27_AsStated ==
    [][(Primary_handleApplyFilters /\ ApplyCheckFails) =>
          /\ validationError' # null
          /\ UNCHANGED <<executedSearchFilters, executedSortBy, executedAdvancedFilters>>]_vars

\* C28: in every reachable state of either page the executed simple-search
\* set passes the validator: the executed account-number term contains no
\* letter, and the executed phone-number term contains no letter once
\* whitespace, hyphens and parentheses are removed.
C28_AsStated ==
    /\ ~HasLetter(executedSearchFilters.accountNumber)
    /\ ~HasLetter(Unformatted(executedSearchFilters.phoneNumber))
    /\ validateSearchInput("accountNumber", executedSearchFilters.accountNumber).valid
    /\ validateSearchInput("phoneNumber", executedSearchFilters.phoneNumber).valid

----------------------------------------------------------------------------
(* Properties of the conditions of the draft chain, under SpecChain        *)

\* C29: in every reachable state every condition of the draft chain other
\* than the last has at least one operand value (a date condition of the
\* primary page: at least one bound).
C29_AsStated ==
    \A i \in 1..(Len(advancedFilters) - 1) : ~Vacuous(page, advancedFilters[i])

\* the operators a condition on the field may carry
OperatorSet(field) ==
    IF field = "balance" THEN {"is", "contains", ">", "<", ">=", "<="}
    ELSE IF field = "dateAdded" THEN {"is", "contains", "before", "after"}
    ELSE {"is", "contains", "does not contain", "starts with"}

\* C30: in every reachable state of either page every condition of the draft
\* chain has an operator of the operator set of its field; a field change
\* resets the operator to the first operator of the new field ('is') and
\* clears the operands, and an operator change outside the field's set is
\* replaced by the first operator of the set.
C30_OperatorOfField ==
    /\ [](\A i \in 1..Len(advancedFilters) :
             advancedFilters[i].operator \in OperatorSet(advancedFilters[i].field))
    /\ [][\A id \in ConditionIds : \A newField \in ChainFields :
             (Primary_fieldOnChange(id, newField) \/ Secondary_fieldOnChange(id, newField)) =>
                 LET changed == ConditionOf(advancedFilters', id)
                 IN  /\ changed.field = newField
                     /\ changed.operator = "is"
                     /\ changed.values = <<>>
                     /\ changed.startDate = <<>> /\ changed.endDate = <<>>]_vars
    /\ [][\A id \in ConditionIds : \A newOperator \in ChainOperators :
             operatorOnChange(id, newOperator) =>
                 LET field == ConditionOf(advancedFilters, id).field
                 IN  ConditionOf(advancedFilters', id).operator =
                        IF newOperator \in OperatorSet(field) THEN newOperator ELSE "is"]_vars

\* a comparison has been chosen for a balance condition with an operand, and
\* the condition after it was changed to a date condition
C30_Witness ==
    /\ Len(advancedFilters) = 2
    /\ advancedFilters[1].field = "balance"
    /\ advancedFilters[1].operator = ">"
    /\ advancedFilters[1].values # <<>>
    /\ advancedFilters[2].field = "dateAdded"
    /\ advancedFilters[2].operator = "is"

====
